---- MODULE Spec2Model ----
(***************************************************************************)
(* The transliteration engine of cfarTransliterator (lib/transliteration   *)
(* and the options layer around it), as a state machine.                   *)
(*                                                                         *)
(* A text is a sequence of Unicode code points (every code point used      *)
(* here lies in the Basic Multilingual Plane, so a JavaScript string index *)
(* and a code point index coincide).  A JavaScript Map is a function whose *)
(* DOMAIN is the set of its keys.                                          *)
(***************************************************************************)
EXTENDS Integers, Sequences, FiniteSets, TLC

(***************************************************************************)
(* Bounds of the model.                                                    *)
(***************************************************************************)
\* longest input text of the sequential specification
MaxLen == 3
\* number of concurrent engine calls of the asynchronous specification
NCalls == 2
\* longest list of texts handed to a batch run
MaxTexts == 3
\* largest batch size of a batch run
MaxBatchSize == 2
\* files of a file operation
MaxFiles == 3

(***************************************************************************)
(* Static tables (src/unnamed/part_002, lines 18-137).                     *)
(***************************************************************************)
URDU_TO_ROMAN_MAP ==
       1575 :> <<97>>         \* alef -> "a"
    @@ 1570 :> <<97, 97>>     \* alef with madda above -> "aa"
    @@ 1571 :> <<97>>         \* alef with hamza above -> "a"
    @@ 1573 :> <<105>>        \* alef with hamza below -> "i"
    @@ 1576 :> <<98>>         \* beh -> "b"
    @@ 1662 :> <<112>>        \* peh -> "p"
    @@ 1578 :> <<116>>        \* teh -> "t"
    @@ 1657 :> <<84>>         \* tteh -> "T"
    @@ 1579 :> <<115>>        \* theh -> "s"
    @@ 1580 :> <<106>>        \* jeem -> "j"
    @@ 1670 :> <<99, 104>>    \* tcheh -> "ch"
    @@ 1581 :> <<104>>        \* hah -> "h"
    @@ 1582 :> <<107, 104>>   \* khah -> "kh"
    @@ 1583 :> <<100>>        \* dal -> "d"
    @@ 1672 :> <<68>>         \* ddal -> "D"
    @@ 1584 :> <<122>>        \* thal -> "z"
    @@ 1585 :> <<114>>        \* reh -> "r"
    @@ 1681 :> <<82>>         \* rreh -> "R"
    @@ 1586 :> <<122>>        \* zain -> "z"
    @@ 1688 :> <<122, 104>>   \* jeh -> "zh"
    @@ 1587 :> <<115>>        \* seen -> "s"
    @@ 1588 :> <<115, 104>>   \* sheen -> "sh"
    @@ 1589 :> <<115>>        \* sad -> "s"
    @@ 1590 :> <<122>>        \* dad -> "z"
    @@ 1591 :> <<116>>        \* tah -> "t"
    @@ 1592 :> <<122>>        \* zah -> "z"
    @@ 1593 :> <<>>           \* ain -> ""
    @@ 1594 :> <<103, 104>>   \* ghain -> "gh"
    @@ 1601 :> <<102>>        \* feh -> "f"
    @@ 1602 :> <<113>>        \* qaf -> "q"
    @@ 1705 :> <<107>>        \* keheh -> "k"
    @@ 1711 :> <<103>>        \* gaf -> "g"
    @@ 1604 :> <<108>>        \* lam -> "l"
    @@ 1605 :> <<109>>        \* meem -> "m"
    @@ 1606 :> <<110>>        \* noon -> "n"
    @@ 1722 :> <<110>>        \* noon ghunna -> "n"
    @@ 1608 :> <<119>>        \* waw -> "w"
    @@ 1729 :> <<104>>        \* heh goal -> "h"
    @@ 1726 :> <<104>>        \* heh doachashmee -> "h"
    @@ 1740 :> <<121>>        \* farsi yeh -> "y"
    @@ 1746 :> <<101>>        \* yeh barree -> "e"
    @@ 1569 :> <<39>>         \* hamza -> "'"
    @@ 32   :> <<32>>         \* space -> " "
    @@ 1748 :> <<46>>         \* urdu full stop -> "."
    @@ 1567 :> <<63>>         \* arabic question mark -> "?"
    @@ 1548 :> <<44>>         \* arabic comma -> ","
    @@ 1549 :> <<47>>         \* date separator -> "/"
    @@ 1642 :> <<37>>         \* arabic percent sign -> "%"

\* Object.keys(ROMAN_TO_URDU_MAP): the keys in insertion order
ROMAN_TO_URDU_KEYS ==
    <<<<97, 97>>, <<97>>, <<101>>, <<105>>, <<111>>, <<117>>,
      <<99, 104>>, <<107, 104>>, <<103, 104>>, <<115, 104>>, <<122, 104>>, <<116, 104>>,
      <<112, 104>>, <<100, 104>>, <<114, 104>>, <<98, 104>>, <<106, 104>>, <<109, 104>>,
      <<110, 104>>, <<98>>, <<112>>, <<116>>, <<84>>, <<106>>,
      <<104>>, <<100>>, <<68>>, <<114>>, <<82>>, <<122>>,
      <<115>>, <<102>>, <<113>>, <<107>>, <<103>>, <<108>>,
      <<109>>, <<110>>, <<119>>, <<121>>, <<46>>, <<63>>,
      <<44>>, <<47>>, <<37>>, <<32>>>>

ROMAN_TO_URDU_MAP ==
       <<97, 97>>   :> <<1570>>       \* "aa" -> alef with madda above
    @@ <<97>>       :> <<1575>>       \* "a" -> alef
    @@ <<101>>      :> <<1746>>       \* "e" -> yeh barree
    @@ <<105>>      :> <<1740>>       \* "i" -> farsi yeh
    @@ <<111>>      :> <<1608>>       \* "o" -> waw
    @@ <<117>>      :> <<1608>>       \* "u" -> waw
    @@ <<99, 104>>  :> <<1670>>       \* "ch" -> tcheh
    @@ <<107, 104>> :> <<1582>>       \* "kh" -> khah
    @@ <<103, 104>> :> <<1594>>       \* "gh" -> ghain
    @@ <<115, 104>> :> <<1588>>       \* "sh" -> sheen
    @@ <<122, 104>> :> <<1688>>       \* "zh" -> jeh
    @@ <<116, 104>> :> <<1578, 1726>> \* "th" -> teh + heh doachashmee
    @@ <<112, 104>> :> <<1662, 1726>> \* "ph" -> peh + heh doachashmee
    @@ <<100, 104>> :> <<1583, 1726>> \* "dh" -> dal + heh doachashmee
    @@ <<114, 104>> :> <<1681, 1726>> \* "rh" -> rreh + heh doachashmee
    @@ <<98, 104>>  :> <<1576, 1726>> \* "bh" -> beh + heh doachashmee
    @@ <<106, 104>> :> <<1580, 1726>> \* "jh" -> jeem + heh doachashmee
    @@ <<109, 104>> :> <<1605, 1726>> \* "mh" -> meem + heh doachashmee
    @@ <<110, 104>> :> <<1606, 1726>> \* "nh" -> noon + heh doachashmee
    @@ <<98>>       :> <<1576>>       \* "b" -> beh
    @@ <<112>>      :> <<1662>>       \* "p" -> peh
    @@ <<116>>      :> <<1578>>       \* "t" -> teh
    @@ <<84>>       :> <<1657>>       \* "T" -> tteh
    @@ <<106>>      :> <<1580>>       \* "j" -> jeem
    @@ <<104>>      :> <<1729>>       \* "h" -> heh goal
    @@ <<100>>      :> <<1583>>       \* "d" -> dal
    @@ <<68>>       :> <<1672>>       \* "D" -> ddal
    @@ <<114>>      :> <<1585>>       \* "r" -> reh
    @@ <<82>>       :> <<1681>>       \* "R" -> rreh
    @@ <<122>>      :> <<1586>>       \* "z" -> zain
    @@ <<115>>      :> <<1587>>       \* "s" -> seen
    @@ <<102>>      :> <<1601>>       \* "f" -> feh
    @@ <<113>>      :> <<1602>>       \* "q" -> qaf
    @@ <<107>>      :> <<1705>>       \* "k" -> keheh
    @@ <<103>>      :> <<1711>>       \* "g" -> gaf
    @@ <<108>>      :> <<1604>>       \* "l" -> lam
    @@ <<109>>      :> <<1605>>       \* "m" -> meem
    @@ <<110>>      :> <<1606>>       \* "n" -> noon
    @@ <<119>>      :> <<1608>>       \* "w" -> waw
    @@ <<121>>      :> <<1740>>       \* "y" -> farsi yeh
    @@ <<46>>       :> <<1748>>       \* "." -> urdu full stop
    @@ <<63>>       :> <<1567>>       \* "?" -> arabic question mark
    @@ <<44>>       :> <<1548>>       \* "," -> arabic comma
    @@ <<47>>       :> <<1549>>       \* "/" -> date separator
    @@ <<37>>       :> <<1642>>       \* "%" -> arabic percent sign
    @@ <<32>>       :> <<32>>         \* " " -> space

\* Object.entries(NORMALIZE_MAP), in insertion order: <<code point, replacement>>
NORMALIZE_MAP ==
    << <<1610, <<1740>>>>,        \* arabic yeh -> farsi yeh
       <<1609, <<1740>>>>,        \* alef maksura -> farsi yeh
       <<1572, <<1740, 1620>>>>,  \* waw with hamza above -> farsi yeh + hamza above
       <<1603, <<1705>>>>,        \* arabic kaf -> keheh
       <<1577, <<1729>>>>,        \* teh marbuta -> heh goal
       <<1728, <<1729>>>> >>      \* heh with yeh above -> heh goal

ARABIC_DIGITS == <<1632, 1633, 1634, 1635, 1636, 1637, 1638, 1639, 1640, 1641>>
ENGLISH_DIGITS == <<48, 49, 50, 51, 52, 53, 54, 55, 56, 57>>

(***************************************************************************)
(* JavaScript string primitives, on sequences of code points.              *)
(***************************************************************************)
\* the regular expression class \s (the code points of it below U+2000)
WhitespaceChars == {9, 10, 11, 12, 13, 32, 160, 5760}

IsWhitespace(c) == c \in WhitespaceChars

\* String.prototype.toLowerCase, on the ASCII letters (the other code points
\* of the tables have no case)
ToLowerCase(text) ==
    [i \in 1..Len(text) |-> IF text[i] \in 65..90 THEN text[i] + 32 ELSE text[i]]

\* String.prototype.toUpperCase, on the ASCII letters
ToUpperCase(text) ==
    [i \in 1..Len(text) |-> IF text[i] \in 97..122 THEN text[i] - 32 ELSE text[i]]

\* text.replace(/^[S]+/, ""): drop the leading run of code points of S
RECURSIVE StripLeading(_, _)
StripLeading(text, S) ==
    IF text # <<>> /\ Head(text) \in S THEN StripLeading(Tail(text), S) ELSE text

\* text.replace(/[S]+$/, ""): drop the trailing run of code points of S
RECURSIVE StripTrailing(_, _)
StripTrailing(text, S) ==
    IF text # <<>> /\ text[Len(text)] \in S
    THEN StripTrailing(SubSeq(text, 1, Len(text) - 1), S)
    ELSE text

\* String.prototype.trim
Trim(text) == StripTrailing(StripLeading(text, WhitespaceChars), WhitespaceChars)

\* text.replace(new RegExp(from, "g"), to) for a one-code-point pattern
RECURSIVE ReplaceAll(_, _, _)
ReplaceAll(text, from, to) ==
    IF text = <<>> THEN <<>>
    ELSE (IF Head(text) = from THEN to ELSE <<Head(text)>>)
         \o ReplaceAll(Tail(text), from, to)

\* text.replace(/[S]/g, ""): delete every code point of S
RemoveAll(text, S) == SelectSeq(text, LAMBDA c : c \notin S)

\* text.split(/\s+/): the pieces between the whitespace runs; a leading or
\* trailing run leaves an empty piece, and "" splits into [""]
RECURSIVE SplitLoop(_, _, _)
SplitLoop(text, cur, inRun) ==
    IF text = <<>> THEN <<cur>>
    ELSE IF IsWhitespace(Head(text))
         THEN IF inRun THEN SplitLoop(Tail(text), cur, TRUE)
              ELSE <<cur>> \o SplitLoop(Tail(text), <<>>, TRUE)
         ELSE SplitLoop(Tail(text), Append(cur, Head(text)), FALSE)

Split(text) == SplitLoop(text, <<>>, FALSE)

\* words.join(" ")
RECURSIVE Join(_)
Join(words) ==
    IF words = <<>> THEN <<>>
    ELSE IF Len(words) = 1 THEN words[1]
    ELSE words[1] \o <<32>> \o Join(Tail(words))

\* text.replace(/\s+/g, " "): every whitespace run becomes one space
RECURSIVE CollapseWhitespace(_, _)
CollapseWhitespace(text, inRun) ==
    IF text = <<>> THEN <<>>
    ELSE IF IsWhitespace(Head(text))
         THEN (IF inRun THEN <<>> ELSE <<32>>) \o CollapseWhitespace(Tail(text), TRUE)
         ELSE <<Head(text)>> \o CollapseWhitespace(Tail(text), FALSE)

\* text.match(/[S]/g) || []: the pattern without its "+", one match per code point
MatchEach(text, S, cur) ==
    LET hits == SelectSeq(text, LAMBDA c : c \in S)
    IN  [k \in 1..Len(hits) |-> <<hits[k]>>]

\* text.match(/[S]+/g) || []: the successive maximal runs of code points of S
RECURSIVE MatchRuns(_, _, _)
MatchRuns(text, S, cur) ==
    IF text = <<>> THEN (IF cur = <<>> THEN <<>> ELSE <<cur>>)
    ELSE IF Head(text) \in S THEN MatchRuns(Tail(text), S, Append(cur, Head(text)))
    ELSE (IF cur = <<>> THEN <<>> ELSE <<cur>>) \o MatchRuns(Tail(text), S, <<>>)

\* a JavaScript string is truthy unless it is empty (undefined is falsy too)
Truthy(text) == text # <<>>

\* text.startsWith(key)
StartsWith(text, key) ==
    Len(key) <= Len(text) /\ SubSeq(text, 1, Len(key)) = key

\* array.includes(x)
Includes(array, x) == \E i \in 1..Len(array) : array[i] = x

(***************************************************************************)
(* Normalizer: TransliterationEngine.normalizeUrdu.                        *)
(***************************************************************************)
\* the loop over ARABIC_DIGITS, from index i on
RECURSIVE FoldDigits(_, _)
FoldDigits(text, i) ==
    IF i > Len(ARABIC_DIGITS) THEN text
    ELSE FoldDigits(ReplaceAll(text, ARABIC_DIGITS[i], <<ENGLISH_DIGITS[i]>>), i + 1)

\* Object.entries(NORMALIZE_MAP).forEach, from entry i on
RECURSIVE FoldGlyphs(_, _)
FoldGlyphs(text, i) ==
    IF i > Len(NORMALIZE_MAP) THEN text
    ELSE FoldGlyphs(ReplaceAll(text, NORMALIZE_MAP[i][1], NORMALIZE_MAP[i][2]), i + 1)

\* /[\u064B-\u0652\u0670]/
Diacritics == (1611..1618) \cup {1648}

normalizeUrdu(text) ==
    LET digits  == FoldDigits(text, 1)
        tatweel == RemoveAll(digits, {1600})
        glyphs  == FoldGlyphs(tatweel, 1)
    IN  RemoveAll(glyphs, Diacritics)

(***************************************************************************)
(* Rule-based transliteration, Urdu script to Roman.                       *)
(***************************************************************************)
\* [bcdfghjklmnpqrstvwxyzBCDFGHJKLMNPQRSTVWXYZ]
ConsonantLetters ==
    ((65..90) \cup (97..122)) \ {97, 101, 105, 111, 117, 65, 69, 73, 79, 85}

\* text.replace(/(?<=[consonant])x(?=[consonant])/g, y) for letters x, y
BetweenConsonants(text, from, to) ==
    [i \in 1..Len(text) |->
        IF /\ text[i] = from
           /\ i > 1
           /\ i < Len(text)
           /\ text[i - 1] \in ConsonantLetters
           /\ text[i + 1] \in ConsonantLetters
        THEN to ELSE text[i]]

\* applyPhoneticRules without its second replacement
applyPhoneticRulesWithoutY(text) ==
    LET w      == BetweenConsonants(text, 119, 111)
        spaces == CollapseWhitespace(w, FALSE)
        quotes == {39, 34} \cup WhitespaceChars
    IN  StripTrailing(StripLeading(Trim(spaces), quotes), quotes)

applyPhoneticRules(text) ==
    LET w      == BetweenConsonants(text, 119, 111)
        y      == BetweenConsonants(w, 121, 105)
        spaces == CollapseWhitespace(y, FALSE)
        quotes == {39, 34} \cup WhitespaceChars
    IN  StripTrailing(StripLeading(Trim(spaces), quotes), quotes)

\* the while loop of transliterateUrduWordRuleBased, from index i on
\* (an absent table entry is undefined, which is falsy like "")
RECURSIVE UrduWordLoop(_, _)
UrduWordLoop(chars, i) ==
    IF i > Len(chars) THEN <<>>
    ELSE LET currentChar == chars[i]
             mapped == IF currentChar \in DOMAIN URDU_TO_ROMAN_MAP
                       THEN URDU_TO_ROMAN_MAP[currentChar] ELSE <<>>
         IN  IF i + 1 <= Len(chars) /\ chars[i + 1] = 1726 /\ Truthy(mapped)
             THEN mapped \o <<104>> \o UrduWordLoop(chars, i + 2)
             ELSE (IF Truthy(mapped) THEN mapped ELSE <<currentChar>>)
                  \o UrduWordLoop(chars, i + 1)

transliterateUrduWordRuleBased(word) == applyPhoneticRules(UrduWordLoop(word, 1))

(***************************************************************************)
(* Rule-based transliteration, Roman to Urdu script.                       *)
(***************************************************************************)
\* keys.sort((a, b) => b.length - a.length): stable, longest first
RECURSIVE SortByLength(_, _)
SortByLength(keys, len) ==
    IF len = 0 THEN <<>>
    ELSE SelectSeq(keys, LAMBDA k : Len(k) = len) \o SortByLength(keys, len - 1)

\* the keys in ascending order of length
sortedKeysShortestFirst ==
    LET RECURSIVE Asc(_)
        Asc(len) == IF len = 0 THEN <<>>
                    ELSE Asc(len - 1)
                         \o SelectSeq(ROMAN_TO_URDU_KEYS, LAMBDA k : Len(k) = len)
    IN  Asc(8)

sortedKeys ==
    LET longest == CHOOSE n \in 1..8 :
                      /\ \E i \in 1..Len(ROMAN_TO_URDU_KEYS) : Len(ROMAN_TO_URDU_KEYS[i]) = n
                      /\ \A i \in 1..Len(ROMAN_TO_URDU_KEYS) : Len(ROMAN_TO_URDU_KEYS[i]) <= n
    IN  SortByLength(ROMAN_TO_URDU_KEYS, longest)

\* the while loop of transliterateRomanWordRuleBased, from index i on
RECURSIVE RomanWordLoop(_, _)
RomanWordLoop(wordLower, i) ==
    IF i > Len(wordLower) THEN <<>>
    ELSE LET rest    == SubSeq(wordLower, i, Len(wordLower))
             matches == SelectSeq(sortedKeys,
                                  LAMBDA key : key # <<32>> /\ StartsWith(rest, key))
             char    == wordLower[i]
         IN  IF matches # <<>>
             THEN ROMAN_TO_URDU_MAP[matches[1]]
                  \o RomanWordLoop(wordLower, i + Len(matches[1]))
             ELSE (CASE char = 97 -> <<1575>>
                     [] char = 105 -> <<1740>>
                     [] char = 117 \/ char = 111 -> <<1608>>
                     [] char = 101 -> <<1746>>
                     [] OTHER -> <<char>>)
                  \o RomanWordLoop(wordLower, i + 1)

transliterateRomanWordRuleBased(word) ==
    LET cleanWord   == StripTrailing(word, {46, 44, 33, 63, 59, 58})
        punctuation == SubSeq(word, Len(cleanWord) + 1, Len(word))
        wordLower   == ToLowerCase(cleanWord)
        urduPunctuation ==
            ReplaceAll(ReplaceAll(ReplaceAll(punctuation, 46, <<1748>>),
                                  63, <<1567>>), 44, <<1548>>)
    IN  RomanWordLoop(wordLower, 1) \o urduPunctuation

(***************************************************************************)
(* Completeness Assessor: TransliterationEngine.checkCompleteness.         *)
(***************************************************************************)
\* /[\u0600-\u06FF\u0750-\u077F\u08A0-\u08FF\uFB50-\uFDFF\uFE70-\uFEFF]/
urduPattern ==
    (1536..1791) \cup (1872..1919) \cup (2208..2303)
        \cup (64336..65023) \cup (65136..65279)

\* /[A-Za-z]/
latinPattern == (65..90) \cup (97..122)

\* checkCompleteness with untransliteratedCount counting code points, not runs
checkCompletenessCountingChars(originalText, transliteratedText, direction) ==
    LET untransliterated ==
            IF direction = "ur-to-en"
            THEN MatchRuns(transliteratedText, urduPattern, <<>>)
            ELSE MatchRuns(transliteratedText, latinPattern, <<>>)
    IN  [isComplete             |-> Len(untransliterated) = 0,
         untransliteratedParts  |-> untransliterated,
         totalWords             |-> Len(Split(originalText)),
         untransliteratedCount  |->
             Len(SelectSeq(transliteratedText,
                           LAMBDA c : c \in (IF direction = "ur-to-en"
                                             THEN urduPattern ELSE latinPattern)))]

checkCompleteness(originalText, transliteratedText, direction) ==
    LET untransliterated ==
            IF direction = "ur-to-en"
            THEN MatchRuns(transliteratedText, urduPattern, <<>>)
            ELSE MatchRuns(transliteratedText, latinPattern, <<>>)
    IN  [isComplete             |-> Len(untransliterated) = 0,
         untransliteratedParts  |-> untransliterated,
         totalWords             |-> Len(Split(originalText)),
         untransliteratedCount  |-> Len(untransliterated)]

(***************************************************************************)
(* Hybrid Resolver: the synchronous part of transliterateUrduToRoman and   *)
(* transliterateRomanToUrdu, run once "await this.loadLexicon()" resumed.  *)
(***************************************************************************)
\* methodsUsed.includes("lexicon") && methodsUsed.includes("rule-based") ? ...
MethodOf(methodsUsed) ==
    IF Includes(methodsUsed, "lexicon") /\ Includes(methodsUsed, "rule-based")
    THEN "hybrid"
    ELSE IF Includes(methodsUsed, "lexicon") THEN "lexicon" ELSE "rule-based"

\* the word loop of transliterateUrduToRoman without the lexicon lookup
UrduWordRuleBasedOnly(word, lexicon) ==
    LET cleanWord   == StripTrailing(word, {1748, 1567, 1548, 1549, 1642})
        punctuation == SubSeq(word, Len(cleanWord) + 1, Len(word))
        romanPunct  ==
            ReplaceAll(ReplaceAll(ReplaceAll(punctuation, 1748, <<46>>),
                                  1567, <<63>>), 1548, <<44>>)
    IN  [word |-> transliterateUrduWordRuleBased(cleanWord) \o romanPunct,
         method |-> "rule-based"]

\* one iteration of the word loop of transliterateUrduToRoman
UrduWord(word, lexicon) ==
    LET cleanWord   == StripTrailing(word, {1748, 1567, 1548, 1549, 1642})
        punctuation == SubSeq(word, Len(cleanWord) + 1, Len(word))
        romanPunct  ==
            ReplaceAll(ReplaceAll(ReplaceAll(punctuation, 1748, <<46>>),
                                  1567, <<63>>), 1548, <<44>>)
    IN  IF cleanWord \in DOMAIN lexicon
        THEN [word |-> lexicon[cleanWord] \o romanPunct, method |-> "lexicon"]
        ELSE [word |-> transliterateUrduWordRuleBased(cleanWord) \o romanPunct,
              method |-> "rule-based"]

\* transliterateUrduToRoman going word by word at once, without the exact
\* phrase match
transliterateUrduToRomanWordByWord(text, lexicon) ==
    LET normalizedText == normalizeUrdu(text)
        words       == Split(normalizedText)
        resolved    == [i \in 1..Len(words) |-> UrduWord(words[i], lexicon)]
        resultWords == [i \in 1..Len(words) |-> resolved[i].word]
        methodsUsed == [i \in 1..Len(words) |-> resolved[i].method]
        result      == Join(resultWords)
    IN  [originalText       |-> text,
         transliteratedText |-> result,
         method             |-> MethodOf(methodsUsed),
         completeness       |-> checkCompleteness(text, result, "ur-to-en")]

transliterateUrduToRoman(text, lexicon) ==
    LET normalizedText == normalizeUrdu(text)
    IN  IF normalizedText \in DOMAIN lexicon
        THEN LET result == lexicon[normalizedText]
             IN  [originalText       |-> text,
                  transliteratedText |-> result,
                  method             |-> "lexicon",
                  completeness       |-> checkCompleteness(text, result, "ur-to-en")]
        ELSE LET words       == Split(normalizedText)
                 resolved    == [i \in 1..Len(words) |-> UrduWord(words[i], lexicon)]
                 resultWords == [i \in 1..Len(words) |-> resolved[i].word]
                 methodsUsed == [i \in 1..Len(words) |-> resolved[i].method]
                 result      == Join(resultWords)
             IN  [originalText       |-> text,
                  transliteratedText |-> result,
                  method             |-> MethodOf(methodsUsed),
                  completeness       |-> checkCompleteness(text, result, "ur-to-en")]

\* the word loop of transliterateRomanToUrdu looking the word up as written
RomanWordAsWritten(word, reverseLexicon) ==
    IF word \in DOMAIN reverseLexicon
    THEN [word |-> reverseLexicon[word], method |-> "lexicon"]
    ELSE [word |-> transliterateRomanWordRuleBased(word), method |-> "rule-based"]

\* one iteration of the word loop of transliterateRomanToUrdu
RomanWord(word, reverseLexicon) ==
    LET lowerWord == ToLowerCase(word)
    IN  IF lowerWord \in DOMAIN reverseLexicon
        THEN [word |-> reverseLexicon[lowerWord], method |-> "lexicon"]
        ELSE [word |-> transliterateRomanWordRuleBased(word), method |-> "rule-based"]

\* transliterateRomanToUrdu without the early return for an empty text
transliterateRomanToUrduAlwaysResolving(text, reverseLexicon) ==
    LET trimmedText == Trim(text)
        lowerText   == ToLowerCase(trimmedText)
    IN  IF lowerText \in DOMAIN reverseLexicon
        THEN LET result == reverseLexicon[lowerText]
             IN  [originalText       |-> text,
                  transliteratedText |-> result,
                  method             |-> "lexicon",
                  completeness       |-> checkCompleteness(text, result, "en-to-ur")]
        ELSE LET words       == Split(trimmedText)
                 resolved    == [i \in 1..Len(words) |-> RomanWord(words[i], reverseLexicon)]
                 resultWords == [i \in 1..Len(words) |-> resolved[i].word]
                 methodsUsed == [i \in 1..Len(words) |-> resolved[i].method]
                 result      == Join(resultWords)
             IN  [originalText       |-> text,
                  transliteratedText |-> result,
                  method             |-> MethodOf(methodsUsed),
                  completeness       |-> checkCompleteness(text, result, "en-to-ur")]

transliterateRomanToUrdu(text, reverseLexicon) ==
    LET trimmedText == Trim(text)
        lowerText   == ToLowerCase(trimmedText)
    IN  IF ~Truthy(trimmedText)
        THEN [originalText       |-> text,
              transliteratedText |-> <<>>,
              method             |-> "rule-based",
              completeness       |-> [isComplete            |-> TRUE,
                                      untransliteratedParts |-> <<>>,
                                      totalWords            |-> 0,
                                      untransliteratedCount |-> 0]]
        ELSE IF lowerText \in DOMAIN reverseLexicon
        THEN LET result == reverseLexicon[lowerText]
             IN  [originalText       |-> text,
                  transliteratedText |-> result,
                  method             |-> "lexicon",
                  completeness       |-> checkCompleteness(text, result, "en-to-ur")]
        ELSE LET words       == Split(trimmedText)
                 resolved    == [i \in 1..Len(words) |-> RomanWord(words[i], reverseLexicon)]
                 resultWords == [i \in 1..Len(words) |-> resolved[i].word]
                 methodsUsed == [i \in 1..Len(words) |-> resolved[i].method]
                 result      == Join(resultWords)
             IN  [originalText       |-> text,
                  transliteratedText |-> result,
                  method             |-> MethodOf(methodsUsed),
                  completeness       |-> checkCompleteness(text, result, "en-to-ur")]

(***************************************************************************)
(* The options layer: EnhancedTransliterationEngine                        *)
(* (src/components/text-translator.tsx, lines 196-342).                    *)
(***************************************************************************)
DEFAULT_OPTIONS ==
    [preferredMethod        |-> "auto",
     qualityThreshold       |-> 80,
     showIncompleteWarnings |-> TRUE,
     preserveFormatting     |-> TRUE,
     normalizeText          |-> TRUE,
     outputCase             |-> "preserve",
     punctuationHandling    |-> "convert",
     batchSize              |-> 10,
     progressUpdates        |-> TRUE,
     debugMode              |-> FALSE]

\* the canonical compositions of the Arabic block: <<first, combining mark, composed>>
NFC_PAIRS ==
    { <<1575, 1619, 1570>>, <<1575, 1620, 1571>>, <<1608, 1620, 1572>>,
      <<1575, 1621, 1573>>, <<1610, 1620, 1574>>, <<1749, 1620, 1728>>,
      <<1729, 1620, 1730>>, <<1746, 1620, 1747>> }

\* text.normalize("NFC") on texts of ASCII and Arabic-block code points: a base
\* letter directly followed by its combining mark becomes the composed letter
RECURSIVE NormalizeNFC(_)
NormalizeNFC(text) ==
    IF Len(text) < 2 THEN text
    ELSE LET hit == {p \in NFC_PAIRS : p[1] = text[1] /\ p[2] = text[2]}
         IN  IF hit # {}
             THEN <<(CHOOSE p \in hit : TRUE)[3]>> \o NormalizeNFC(SubSeq(text, 3, Len(text)))
             ELSE <<text[1]>> \o NormalizeNFC(Tail(text))

applyTextProcessing(text, options) ==
    LET formatted == IF ~options.preserveFormatting
                     THEN Trim(CollapseWhitespace(text, FALSE))
                     ELSE text
    IN  IF options.normalizeText THEN NormalizeNFC(formatted) ELSE formatted

\* /\w/
WordChars == (48..57) \cup (65..90) \cup (97..122) \cup {95}

\* text.replace(/\w\S*/g, txt => txt.charAt(0).toUpperCase() + txt.substr(1).toLowerCase())
RECURSIVE TitleCase(_, _)
TitleCase(text, inMatch) ==
    IF text = <<>> THEN <<>>
    ELSE IF inMatch
         THEN IF IsWhitespace(Head(text))
              THEN <<Head(text)>> \o TitleCase(Tail(text), FALSE)
              ELSE ToLowerCase(<<Head(text)>>) \o TitleCase(Tail(text), TRUE)
         ELSE IF Head(text) \in WordChars
              THEN ToUpperCase(<<Head(text)>>) \o TitleCase(Tail(text), TRUE)
              ELSE <<Head(text)>> \o TitleCase(Tail(text), FALSE)

applyOutputFormatting(text, options) ==
    LET cased == CASE options.outputCase = "lowercase" -> ToLowerCase(text)
                   [] options.outputCase = "uppercase" -> ToUpperCase(text)
                   [] options.outputCase = "title"     -> TitleCase(text, FALSE)
                   [] OTHER                            -> text
    IN  IF options.punctuationHandling = "remove"
        THEN RemoveAll(cased, {1748, 1567, 1548, 1549, 1642, 46, 44, 33, 63, 59, 58})
        ELSE cased

\* Math.round(((totalWords - untransliteratedCount) / totalWords) * 100), or 100
completenessPercentage(result) ==
    LET total == result.completeness.totalWords
        good  == total - result.completeness.untransliteratedCount
    IN  IF total > 0 THEN (200 * good + total) \div (2 * total) ELSE 100

\* whether checkQualityThreshold writes the warning to the console
WarnsBelowThreshold(result, options) ==
    /\ completenessPercentage(result) < options.qualityThreshold
    /\ options.showIncompleteWarnings

\* checkQualityThreshold withholding a text that is below the threshold
checkQualityThresholdEnforced(result, options) ==
    IF WarnsBelowThreshold(result, options)
    THEN [result EXCEPT !.transliteratedText = <<>>]
    ELSE result

\* checkQualityThreshold only warns on the console: the result goes through
checkQualityThreshold(result, options) == result

\* the engine call of a direction, on the store as it is when the call resumes
EngineResult(text, direction, lexicon, reverseLexicon) ==
    IF direction = "urdu-to-roman"
    THEN transliterateUrduToRoman(text, lexicon)
    ELSE transliterateRomanToUrdu(text, reverseLexicon)

transliterateWithOptions(text, direction, options, lexicon, reverseLexicon) ==
    LET processedText   == applyTextProcessing(text, options)
        result          == EngineResult(processedText, direction, lexicon, reverseLexicon)
        formattedOutput == applyOutputFormatting(result.transliteratedText, options)
        enhancedResult  == [result EXCEPT !.transliteratedText = formattedOutput]
    IN  checkQualityThreshold(enhancedResult, options)

(***************************************************************************)
(* Lexicon Store: TransliterationEngine.loadLexicon.                       *)
(*                                                                         *)
(* The body of /lexicon.json is [kind, data]: kind "list" is a JSON array  *)
(* of records, "notjson" a body response.json() rejects, "notlist" a JSON  *)
(* value without forEach.  A record holds the fields that are strings; a   *)
(* field that is absent (or no string) makes ".trim()" throw.              *)
(***************************************************************************)
EmptyMap == [k \in {} |-> <<>>]

\* "if (!map.has(key)) map.set(key, value)": the first write wins
MapSetIfAbsent(map, key, value) ==
    [k \in (DOMAIN map) \cup {key} |-> IF k \in DOMAIN map THEN map[k] ELSE value]

\* Map.prototype.set
MapSet(map, key, value) ==
    [k \in (DOMAIN map) \cup {key} |-> IF k = key THEN value ELSE map[k]]

\* entry.urdu_script.trim() or entry.roman_urdu.trim() throws a TypeError
EntryThrows(entry) ==
    "urdu_script" \notin DOMAIN entry \/ "roman_urdu" \notin DOMAIN entry

\* the callback of data.forEach on one entry that does not throw
AddEntry(maps, entry) ==
    LET urdu  == normalizeUrdu(Trim(entry.urdu_script))
        roman == ToLowerCase(Trim(entry.roman_urdu))
    IN  IF Truthy(urdu) /\ Truthy(roman)
        THEN LET lex == MapSet(maps.lexicon, urdu, roman)
                 rev == MapSet(maps.reverseLexicon, roman, urdu)
                 urduWords  == Split(urdu)
                 romanWords == Split(roman)
             IN  IF Len(urduWords) = 1 /\ Len(romanWords) = 1
                 THEN [lexicon        |-> MapSet(lex, urduWords[1], romanWords[1]),
                       reverseLexicon |-> MapSet(rev, romanWords[1], urduWords[1])]
                 ELSE [lexicon |-> lex, reverseLexicon |-> rev]
        ELSE maps

\* data.forEach(...) from entry i on: stops at the first entry that throws
RECURSIVE ForEachEntry(_, _, _)
ForEachEntry(data, i, maps) ==
    IF i > Len(data)
    THEN [lexicon |-> maps.lexicon, reverseLexicon |-> maps.reverseLexicon, threw |-> FALSE]
    ELSE IF EntryThrows(data[i])
    THEN [lexicon |-> maps.lexicon, reverseLexicon |-> maps.reverseLexicon, threw |-> TRUE]
    ELSE ForEachEntry(data, i + 1, AddEntry(maps, data[i]))

\* lines 149-171, run in one piece when the fetch has resolved and the body is
\* read: response.json(), the two clear() calls, data.forEach
BuildStore(body, maps) ==
    IF body.kind = "notjson"
    THEN [lexicon |-> maps.lexicon, reverseLexicon |-> maps.reverseLexicon, threw |-> TRUE]
    ELSE IF body.kind = "notlist"
    THEN [lexicon |-> EmptyMap, reverseLexicon |-> EmptyMap, threw |-> TRUE]
    ELSE ForEachEntry(body.data, 1, [lexicon |-> EmptyMap, reverseLexicon |-> EmptyMap])

\* loadLexicon without its catch block: the exception rejects the promise
SettleUncaught(threw) == [isLoaded |-> ~threw, rejects |-> threw]

\* the try/catch of loadLexicon: the flag it leaves, and whether the promise
\* of loadLexicon rejects
Settle(threw) == [isLoaded |-> ~threw, rejects |-> FALSE]

(***************************************************************************)
(* The inputs of the model.                                                *)
(***************************************************************************)
Entry(urdu, roman) == [urdu_script |-> urdu, roman_urdu |-> roman]

Feeds ==
    { \* a word (to be trimmed and lower-cased) and a two-word phrase
      [kind |-> "list", data |-> << Entry(<<32, 1608>>, <<79>>),
                                    Entry(<<1576, 32, 1608>>, <<120, 32, 111>>) >>],
      \* the same key twice, and an entry that is empty after trimming
      [kind |-> "list", data |-> << Entry(<<1608>>, <<111>>),
                                    Entry(<<1608>>, <<120>>),
                                    Entry(<<32>>, <<111>>) >>],
      \* the second record has no roman_urdu
      [kind |-> "list", data |-> << Entry(<<1608>>, <<111>>),
                                    [urdu_script |-> <<1576>>],
                                    Entry(<<1576>>, <<98>>) >>],
      \* one entry: seen-lam-alef-meem, "salam"
      [kind |-> "list", data |-> << Entry(<<1587, 1604, 1575, 1605>>,
                                          <<115, 97, 108, 97, 109>>) >>],
      \* one word against two words, two words against one word, and one
      \* word against one word
      [kind |-> "list", data |-> << Entry(<<1608>>, <<120, 32, 111>>),
                                    Entry(<<1576, 32, 1608>>, <<104>>),
                                    Entry(<<1576>>, <<120>>) >>],
      [kind |-> "list", data |-> <<>>],
      [kind |-> "notjson", data |-> <<>>],
      [kind |-> "notlist", data |-> <<>>] }

Directions == {"urdu-to-roman", "roman-to-urdu"}

\* space, waw, beh, ain, heh doachashmee, urdu full stop
UrduAlphabet == {32, 1608, 1576, 1593, 1726, 1748}
\* space, "o", "O", "x", "h", "."
RomanAlphabet == {32, 111, 79, 120, 104, 46}

TextsOver(alphabet, maxLen) == UNION {[1..n -> alphabet] : n \in 0..maxLen}

\* seen-lam-alef-meem, then a word that is in no feed: dal-noon-yeh-alef,
\* beh-dal
ScenarioTexts ==
    { <<1587, 1604, 1575, 1605, 32>> \o x :
          x \in { <<1583, 1606, 1740, 1575>>, <<1576, 1583>> } }

\* waw with a trailing run of script punctuation: the date separator, the
\* percent sign, a question mark before a percent sign
PunctuatedTexts == { <<1608, 1549>>, <<1608, 1642>>, <<1608, 1567, 1642>> }

\* words whose rule output has "w" and "y" among consonants: beh-yeh-beh,
\* beh-waw-yeh-beh, beh-yeh-waw-beh
PhoneticTexts ==
    { <<1576, 1740, 1576>>, <<1576, 1608, 1740, 1576>>, <<1576, 1740, 1608, 1576>> }

\* Roman words with a choice between keys: "aa", "ch", "kha", "Chb", "cab"
DigraphTexts ==
    { <<97, 97>>, <<99, 104>>, <<107, 104, 97>>, <<67, 104, 98>>, <<99, 97, 98>> }

\* the calls of the sequential specification: every text up to MaxLen, and
\* the scenario texts
SeqInputs ==
    {[text |-> t, direction |-> "urdu-to-roman"] :
        t \in TextsOver(UrduAlphabet, MaxLen) \cup ScenarioTexts \cup PunctuatedTexts
                \cup PhoneticTexts}
    \cup
    {[text |-> t, direction |-> "roman-to-urdu"] :
        t \in TextsOver(RomanAlphabet, MaxLen) \cup DigraphTexts}

\* the calls of the asynchronous specification
AsyncInputs ==
    { [text |-> <<1608>>, direction |-> "urdu-to-roman"],
      [text |-> <<1576, 32, 1608>>, direction |-> "urdu-to-roman"],
      [text |-> <<111>>, direction |-> "roman-to-urdu"],
      [text |-> <<120, 32, 79>>, direction |-> "roman-to-urdu"] }

(***************************************************************************)
(* State.                                                                  *)
(***************************************************************************)
VARIABLES
    feed,            \* the body of /lexicon.json
    lexicon,         \* TransliterationEngine.lexicon
    reverseLexicon,  \* TransliterationEngine.reverseLexicon
    isLoaded,        \* TransliterationEngine.isLoaded
    pc,              \* where each transliterate call stands
    text,            \* the text argument of each call
    direction,       \* the direction of each call
    result,          \* the TransliterationResult each call resolved with
    loadPath,        \* how the loadLexicon of each call went
    fetches,         \* number of fetch("/lexicon.json") issued so far
    settled,         \* the calls that have resolved, in the order they did
    texts,           \* batchTransliterateWithOptions: texts
    batchDirection,  \* batchTransliterateWithOptions: direction
    options,         \* batchTransliterateWithOptions: options
    onProgress,      \* batchTransliterateWithOptions: whether onProgress is given
    batchPc,         \* where batchTransliterateWithOptions stands
    i,               \* its loop variable
    results,         \* its results array
    progress,        \* the values onProgress / setProgress was called with
    caller,          \* the entry point the calls come through
    fileOp,          \* the file operation that runs
    fileArray,       \* its files
    filePc,          \* where it stands
    fileAt,          \* the file it is at (counted from 1)
    newFiles         \* newFiles of processFiles / results of processFilesBatch

engineVars == <<feed, lexicon, reverseLexicon, isLoaded>>
callVars == <<pc, text, direction, result, loadPath, fetches, settled>>
batchVars == <<texts, batchDirection, options, onProgress, batchPc, i, results, progress>>
fileVars == <<fileOp, fileArray, filePc, fileAt, newFiles>>
vars == <<engineVars, callVars, batchVars, caller, fileVars>>

Calls == DOMAIN pc

NoResult == [method |-> "none"]

\* the state after "new TransliterationEngine()", with n calls yet to be made
InitEngine(n, feeds) ==
    /\ feed \in feeds
    /\ lexicon = EmptyMap
    /\ reverseLexicon = EmptyMap
    /\ isLoaded = FALSE
    /\ pc = [c \in 1..n |-> "idle"]
    /\ text = [c \in 1..n |-> <<>>]
    /\ direction = [c \in 1..n |-> "urdu-to-roman"]
    /\ result = [c \in 1..n |-> NoResult]
    /\ loadPath = [c \in 1..n |-> "none"]
    /\ fetches = 0
    /\ settled = <<>>

NoBatch ==
    /\ texts = <<>>
    /\ batchDirection = "urdu-to-roman"
    /\ options = DEFAULT_OPTIONS
    /\ onProgress = FALSE
    /\ batchPc = "none"
    /\ i = 0
    /\ results = <<>>
    /\ progress = <<>>

NoFiles ==
    /\ fileOp = "none"
    /\ fileArray = <<>>
    /\ filePc = "none"
    /\ fileAt = 0
    /\ newFiles = <<>>

(***************************************************************************)
(* One transliterate call: transliterateUrduToRoman / transliterateRomanTo *)
(* Urdu, suspended at the awaits of loadLexicon.                           *)
(***************************************************************************)
\* loadLexicon returning at once also when a load is merely under way
\* ("if (this.isLoaded || this.isLoading) return")
EnterWithoutWaiting(S) ==
    LET skip == isLoaded \/ \E c \in Calls : pc[c] \in {"fetching", "parsing"}
    IN  /\ pc' = [c \in Calls |-> IF c \in S
                                  THEN (IF skip THEN "loaded" ELSE "fetching")
                                  ELSE pc[c]]
        /\ loadPath' = [c \in Calls |-> IF c \in S /\ skip THEN "cached" ELSE loadPath[c]]
        /\ fetches' = IF skip THEN fetches ELSE fetches + Cardinality(S)

\* the calls of S enter loadLexicon in the same synchronous stretch: with the
\* flag set they return at once, otherwise each issues its own fetch
Enter(S) ==
    /\ pc' = [c \in Calls |-> IF c \in S
                              THEN (IF isLoaded THEN "loaded" ELSE "fetching")
                              ELSE pc[c]]
    /\ loadPath' = [c \in Calls |-> IF c \in S /\ isLoaded THEN "cached" ELSE loadPath[c]]
    /\ fetches' = IF isLoaded THEN fetches ELSE fetches + Cardinality(S)

\* a caller invokes the engine with an input
Start(c, inputs) ==
    /\ batchPc = "none"
    /\ pc[c] = "idle"
    /\ \E input \in inputs :
          /\ text' = [text EXCEPT ![c] = input.text]
          /\ direction' = [direction EXCEPT ![c] = input.direction]
    /\ Enter({c})
    /\ UNCHANGED <<engineVars, result, settled, batchVars, caller, fileVars>>

\* "await fetch(...)" resolves with a response
FetchResolves(c) ==
    /\ pc[c] = "fetching"
    /\ pc' = [pc EXCEPT ![c] = "parsing"]
    /\ UNCHANGED <<engineVars, text, direction, result, loadPath, fetches, settled,
                   batchVars, caller, fileVars>>

\* a catch block that also empties the two maps
FinishClearingOnFailure(c, built, path) ==
    LET outcome == Settle(built.threw)
    IN  /\ lexicon' = IF built.threw THEN EmptyMap ELSE built.lexicon
        /\ reverseLexicon' = IF built.threw THEN EmptyMap ELSE built.reverseLexicon
        /\ isLoaded' = outcome.isLoaded
        /\ pc' = [pc EXCEPT ![c] = IF outcome.rejects THEN "rejected" ELSE "loaded"]
        /\ loadPath' = [loadPath EXCEPT ![c] = path]

\* the rest of loadLexicon once it has thrown or run through
Finish(c, built, path) ==
    LET outcome == Settle(built.threw)
    IN  /\ lexicon' = built.lexicon
        /\ reverseLexicon' = built.reverseLexicon
        /\ isLoaded' = outcome.isLoaded
        /\ pc' = [pc EXCEPT ![c] = IF outcome.rejects THEN "rejected" ELSE "loaded"]
        /\ loadPath' = [loadPath EXCEPT ![c] = path]

\* "await fetch(...)" rejects: the catch block runs
FetchRejects(c) ==
    /\ pc[c] = "fetching"
    /\ Finish(c, [lexicon |-> lexicon, reverseLexicon |-> reverseLexicon, threw |-> TRUE],
              "fetch-rejected")
    /\ UNCHANGED <<feed, text, direction, result, fetches, settled, batchVars, caller, fileVars>>

\* "await response.json()" settles: the store is cleared and rebuilt, up to
\* the first throw, without suspending
BodyRead(c) ==
    /\ pc[c] = "parsing"
    /\ LET built == BuildStore(feed, [lexicon |-> lexicon, reverseLexicon |-> reverseLexicon])
       IN  Finish(c, built, IF built.threw THEN "threw" ELSE "built")
    /\ UNCHANGED <<feed, text, direction, result, fetches, settled, batchVars, caller, fileVars>>

\* "await this.loadLexicon()" resumes: the call runs to its return statement
Resolve(c) ==
    /\ pc[c] = "loaded"
    /\ pc' = [pc EXCEPT ![c] = "done"]
    /\ result' = [result EXCEPT ![c] =
                    IF caller = "engine"
                    THEN EngineResult(text[c], direction[c], lexicon, reverseLexicon)
                    ELSE transliterateWithOptions(text[c], direction[c], options,
                                                  lexicon, reverseLexicon)]
    /\ settled' = Append(settled, c)
    /\ UNCHANGED <<engineVars, text, direction, loadPath, fetches, batchVars, caller, fileVars>>

CallStep ==
    \/ \E c \in Calls : FetchResolves(c)
    \/ \E c \in Calls : FetchRejects(c)
    \/ \E c \in Calls : BodyRead(c)
    \/ \E c \in Calls : Resolve(c)

(***************************************************************************)
(* Spec: NCalls engine calls with a few inputs, interleaved at the awaits. *)
(***************************************************************************)
Init == InitEngine(NCalls, Feeds) /\ NoBatch /\ NoFiles /\ caller = "engine"

Next ==
    \/ \E c \in Calls : Start(c, AsyncInputs)
    \/ CallStep

Spec == Init /\ [][Next]_vars

(***************************************************************************)
(* SpecSeq: one engine call on a fresh engine, with every text up to       *)
(* MaxLen.                                                                 *)
(***************************************************************************)
InitSeq == InitEngine(1, Feeds) /\ NoBatch /\ NoFiles /\ caller = "engine"

NextSeq ==
    \/ \E c \in Calls : Start(c, SeqInputs)
    \/ CallStep

SpecSeq == InitSeq /\ [][NextSeq]_vars

(***************************************************************************)
(* SpecBatch: one run of batchTransliterateWithOptions; call c of the run  *)
(* is transliterateWithOptions(texts[c], direction, options).              *)
(***************************************************************************)
Min(a, b) == IF a <= b THEN a ELSE b

\* texts.slice(from, from + batchSize), as the calls made for it
Batch(from) ==
    [k \in 1..(Min(from + options.batchSize, Len(texts)) - Min(from, Len(texts))) |-> from + k]

Range(seq) == {seq[k] : k \in 1..Len(seq)}

\* the results of the batch collected as the calls resolve
PromiseAllAsSettled(batch) ==
    LET order == SelectSeq(settled, LAMBDA c : c \in Range(batch))
    IN  [k \in 1..Len(batch) |-> result[order[k]]]

\* Promise.all(batchPromises), once every promise of the batch has resolved:
\* the results in the order of the promises
PromiseAll(batch) == [k \in 1..Len(batch) |-> result[batch[k]]]

\* the progress computed from the start of the batch: (i / texts.length) * 100
ProgressValueAtBatchStart == [num |-> i * 100, den |-> Len(texts)]

\* Math.min(((i + batchSize) / texts.length) * 100, 100), as a fraction
ProgressValue ==
    [num |-> Min((i + options.batchSize) * 100, Len(texts) * 100), den |-> Len(texts)]

\* batch.map((text) => this.transliterateWithOptions(text, direction, options)):
\* every call of the batch runs to its first await
Dispatch(batch) ==
    /\ text' = [c \in Calls |-> IF c \in Range(batch) THEN texts[c] ELSE text[c]]
    /\ direction' = [c \in Calls |-> IF c \in Range(batch) THEN batchDirection
                                     ELSE direction[c]]
    /\ Enter(Range(batch))

\* the caller invokes batchTransliterateWithOptions: up to the first await
BatchInvoke ==
    /\ batchPc = "ready"
    /\ IF 0 < Len(texts)
       THEN /\ Dispatch(Batch(0))
            /\ batchPc' = "awaiting"
       ELSE /\ batchPc' = "returned"
            /\ UNCHANGED <<pc, text, direction, loadPath, fetches>>
    /\ UNCHANGED <<engineVars, result, settled, texts, batchDirection, options,
                   onProgress, i, results, progress, caller, fileVars>>

\* "await Promise.all(batchPromises)" resumes: the loop body ends, and the
\* loop goes on to the next await or to the return statement
BatchResume ==
    /\ batchPc = "awaiting"
    /\ \/ \A c \in Range(Batch(i)) : pc[c] = "done"
       \/ \E c \in Range(Batch(i)) : pc[c] = "rejected"
    /\ IF \E c \in Range(Batch(i)) : pc[c] = "rejected"
       THEN /\ batchPc' = "rejected"
            /\ UNCHANGED <<pc, text, direction, loadPath, fetches, i, results, progress>>
       ELSE /\ results' = results \o PromiseAll(Batch(i))
            /\ progress' = IF onProgress /\ options.progressUpdates
                           THEN Append(progress, ProgressValue)
                           ELSE progress
            /\ i' = i + options.batchSize
            /\ IF i + options.batchSize < Len(texts)
               THEN /\ Dispatch(Batch(i + options.batchSize))
                    /\ batchPc' = "awaiting"
               ELSE /\ batchPc' = "returned"
                    /\ UNCHANGED <<pc, text, direction, loadPath, fetches>>
    /\ UNCHANGED <<engineVars, result, settled, texts, batchDirection, options, onProgress,
                   caller, fileVars>>

BatchTexts ==
    UNION {[1..n -> {<<1608>>, <<1576, 32>>}] : n \in 0..MaxTexts}

BatchOptions ==
    {[DEFAULT_OPTIONS EXCEPT !.batchSize = b, !.progressUpdates = p, !.preserveFormatting = f] :
        b \in 1..MaxBatchSize, p \in BOOLEAN, f \in BOOLEAN}

BatchFeeds == {f \in Feeds : f.kind = "notjson" \/ Len(f.data) = 2}

InitBatch ==
    /\ texts \in BatchTexts
    /\ batchDirection \in Directions
    /\ options \in BatchOptions
    /\ onProgress \in BOOLEAN
    /\ batchPc = "ready"
    /\ i = 0
    /\ results = <<>>
    /\ progress = <<>>
    /\ InitEngine(Len(texts), BatchFeeds)
    /\ NoFiles
    /\ caller = "batch"

NextBatch ==
    \/ BatchInvoke
    \/ BatchResume
    \/ CallStep

SpecBatch == InitBatch /\ [][NextBatch]_vars

(***************************************************************************)
(* SpecOptions: one call of transliterateWithOptions, as TextTranslator    *)
(* makes it, under every setting of the options that shape a result.       *)
(***************************************************************************)
PreferredMethods ==
    {"auto", "lexicon-first", "rule-based-first", "lexicon-only", "rule-based-only"}

\* no threshold, the default, everything
QualityThresholds == {0, 80, 100}

OptionSets ==
    {[DEFAULT_OPTIONS EXCEPT !.preferredMethod = m, !.qualityThreshold = q,
                             !.outputCase = o] :
        m \in PreferredMethods, q \in QualityThresholds,
        o \in {"preserve", "uppercase"}}
    \cup {[DEFAULT_OPTIONS EXCEPT !.punctuationHandling = "remove"]}

\* space, waw, ain / space, "o", "x"
OptionInputs ==
    {[text |-> t, direction |-> "urdu-to-roman"] :
        t \in TextsOver({32, 1608, 1593}, MaxLen) \cup PunctuatedTexts}
    \cup
    {[text |-> t, direction |-> "roman-to-urdu"] : t \in TextsOver({32, 111, 120}, MaxLen)}

InitOptions ==
    /\ InitEngine(1, BatchFeeds)
    /\ NoFiles
    /\ caller = "options"
    /\ texts = <<>>
    /\ batchDirection = "urdu-to-roman"
    /\ options \in OptionSets
    /\ onProgress = FALSE
    /\ batchPc = "none"
    /\ i = 0
    /\ results = <<>>
    /\ progress = <<>>

NextOptions ==
    \/ \E c \in Calls : Start(c, OptionInputs)
    \/ CallStep

SpecOptions == InitOptions /\ [][NextOptions]_vars

(***************************************************************************)
(* File batches: FileProcessor.processFiles                                *)
(* (src/components/translation-settings.tsx) and processFilesBatch         *)
(* (lib/file-utils).  A file is [ext, size, readable, content]: readable   *)
(* says whether parseFile resolves with the content or rejects.  The       *)
(* transliteration of file number p is call p.                             *)
(***************************************************************************)
SUPPORTED_FILE_TYPES == {".txt", ".md", ".csv", ".text", ".pdf", ".docx"}

MAX_FILE_SIZE == 10 * 1024 * 1024

validateFile(file) ==
    IF file.size > MAX_FILE_SIZE
    THEN [isValid |-> FALSE, error |-> "File size exceeds limit"]
    ELSE IF file.ext \notin SUPPORTED_FILE_TYPES
    THEN [isValid |-> FALSE, error |-> "Unsupported file type"]
    ELSE [isValid |-> TRUE]

\* parseFile(file), once settled: the content, or a rejection
parseFile(file) ==
    IF file.ext \in SUPPORTED_FILE_TYPES /\ file.readable
    THEN [ok |-> TRUE, content |-> file.content]
    ELSE [ok |-> FALSE]

\* the ProcessedFile pushed for a file that went through
CompletedFile(p, content, r) ==
    [name                   |-> p,
     originalContent        |-> content,
     processedContent       |-> r.transliteratedText,
     transliterationResult  |-> r,
     status                 |-> "completed"]

\* the ProcessedFile pushed by the catch block of processFiles
ErrorFile(p, error) ==
    [name                   |-> p,
     originalContent        |-> <<>>,
     processedContent       |-> <<>>,
     transliterationResult  |->
         [originalText       |-> <<>>,
          transliteratedText |-> <<>>,
          method             |-> "rule-based",
          completeness       |-> [isComplete            |-> FALSE,
                                  untransliteratedParts |-> <<>>,
                                  totalWords            |-> 0,
                                  untransliteratedCount |-> 0]],
     status                 |-> "error",
     error                  |-> error]

\* the value of i while the inner loop of processFiles is at file p
BatchStart(p) == ((p - 1) \div options.batchSize) * options.batchSize

RECURSIVE ProcessFilesLoopFailFast(_, _, _)
\* processFiles without the try/catch around a file: the first failure
\* ends the run
ProcessFilesLoopFailFast(p, entries, shown) ==
    IF p > Len(fileArray)
    THEN [at |-> p, newFiles |-> entries,
          progress |-> Append(shown, [num |-> 100, den |-> 1]), pc |-> "returned"]
    ELSE IF ~validateFile(fileArray[p]).isValid
    THEN [at |-> p, newFiles |-> entries, progress |-> shown, pc |-> "returned"]
    ELSE [at |-> p, newFiles |-> entries,
          progress |-> IF options.progressUpdates
                       THEN Append(shown, [num |-> BatchStart(p) * 100,
                                           den |-> Len(fileArray)])
                       ELSE shown,
          pc |-> "reading"]

RECURSIVE ProcessFilesLoop(_, _, _)
\* the two loops of processFiles from file p on, up to the next await or to
\* the end: a file that fails validation is caught and reported at once
ProcessFilesLoop(p, entries, shown) ==
    IF p > Len(fileArray)
    THEN [at |-> p, newFiles |-> entries,
          progress |-> Append(shown, [num |-> 100, den |-> 1]), pc |-> "returned"]
    ELSE LET validation == validateFile(fileArray[p])
         IN  IF ~validation.isValid
             THEN ProcessFilesLoop(p + 1, Append(entries, ErrorFile(p, validation.error)),
                                   shown)
             ELSE [at |-> p, newFiles |-> entries,
                   progress |-> IF options.progressUpdates
                                THEN Append(shown, [num |-> BatchStart(p) * 100,
                                                    den |-> Len(fileArray)])
                                ELSE shown,
                   pc |-> "reading"]

RECURSIVE ProcessFilesBatchLoop(_, _, _)
\* the loop of processFilesBatch from file p on, up to the next await or to
\* the return statement
ProcessFilesBatchLoop(p, entries, shown) ==
    IF p > Len(fileArray)
    THEN [at |-> p, newFiles |-> entries, progress |-> shown, pc |-> "returned"]
    ELSE LET validation == validateFile(fileArray[p])
         IN  IF ~validation.isValid
             THEN ProcessFilesBatchLoop(
                      p + 1,
                      Append(entries, [file |-> p, error |-> validation.error,
                                       success |-> FALSE]),
                      shown)
             ELSE [at |-> p, newFiles |-> entries, progress |-> shown, pc |-> "reading"]

\* the end of an iteration of processFilesBatch: the progress callback, then
\* the next iteration
ProcessFilesBatchNext(entry) ==
    ProcessFilesBatchLoop(fileAt + 1, Append(newFiles, entry),
                          IF onProgress
                          THEN Append(progress, [num |-> fileAt * 100,
                                                 den |-> Len(fileArray)])
                          ELSE progress)

\* the file operation goes on as far as run says
Continue(run) ==
    /\ fileAt' = run.at
    /\ newFiles' = run.newFiles
    /\ progress' = run.progress
    /\ filePc' = run.pc

\* "await processText(content)" / "await processor(content)": the call for
\* the file runs to its first await
ProcessText(content) ==
    /\ text' = [text EXCEPT ![fileAt] = content]
    /\ direction' = [direction EXCEPT ![fileAt] = batchDirection]
    /\ Enter({fileAt})
    /\ filePc' = "transliterating"
    /\ UNCHANGED <<fileAt, newFiles, progress>>

\* handleFileUpload calls processFiles: up to the first await
ProcessFilesInvoke ==
    /\ fileOp = "processFiles"
    /\ filePc = "ready"
    /\ Continue(ProcessFilesLoop(1, <<>>, <<[num |-> 0, den |-> 1]>>))
    /\ UNCHANGED <<engineVars, callVars, texts, batchDirection, options, onProgress,
                   batchPc, i, results, caller, fileOp, fileArray>>

\* "await readFileContent(file)" settles
ProcessFilesRead ==
    /\ fileOp = "processFiles"
    /\ filePc = "reading"
    /\ LET parsed == parseFile(fileArray[fileAt])
       IN  IF parsed.ok
           THEN ProcessText(parsed.content)
           ELSE /\ Continue(ProcessFilesLoop(fileAt + 1,
                                             Append(newFiles,
                                                    ErrorFile(fileAt, "Failed to read")),
                                             progress))
                /\ UNCHANGED <<pc, text, direction, loadPath, fetches>>
    /\ UNCHANGED <<engineVars, result, settled, texts, batchDirection, options, onProgress,
                   batchPc, i, results, caller, fileOp, fileArray>>

\* "await processText(content)" settles
ProcessFilesTransliterated ==
    /\ fileOp = "processFiles"
    /\ filePc = "transliterating"
    /\ pc[fileAt] \in {"done", "rejected"}
    /\ LET entry == IF pc[fileAt] = "done"
                    THEN CompletedFile(fileAt, text[fileAt], result[fileAt])
                    ELSE ErrorFile(fileAt, "Unknown error")
       IN  Continue(ProcessFilesLoop(fileAt + 1, Append(newFiles, entry), progress))
    /\ UNCHANGED <<engineVars, callVars, texts, batchDirection, options, onProgress,
                   batchPc, i, results, caller, fileOp, fileArray>>

\* "setTimeout(() => setProgress(0), 1000)" fires
ProcessFilesReset ==
    /\ fileOp = "processFiles"
    /\ filePc = "returned"
    /\ filePc' = "reset"
    /\ progress' = Append(progress, [num |-> 0, den |-> 1])
    /\ UNCHANGED <<engineVars, callVars, texts, batchDirection, options, onProgress,
                   batchPc, i, results, caller, fileOp, fileArray, fileAt, newFiles>>

\* a caller invokes processFilesBatch: up to the first await
ProcessFilesBatchInvoke ==
    /\ fileOp = "processFilesBatch"
    /\ filePc = "ready"
    /\ Continue(ProcessFilesBatchLoop(1, <<>>, <<>>))
    /\ UNCHANGED <<engineVars, callVars, texts, batchDirection, options, onProgress,
                   batchPc, i, results, caller, fileOp, fileArray>>

\* "await parseFile(file)" settles
ProcessFilesBatchRead ==
    /\ fileOp = "processFilesBatch"
    /\ filePc = "reading"
    /\ LET parsed == parseFile(fileArray[fileAt])
       IN  IF parsed.ok
           THEN ProcessText(parsed.content)
           ELSE /\ Continue(ProcessFilesBatchNext([file |-> fileAt,
                                                   error |-> "Failed to read",
                                                   success |-> FALSE]))
                /\ UNCHANGED <<pc, text, direction, loadPath, fetches>>
    /\ UNCHANGED <<engineVars, result, settled, texts, batchDirection, options, onProgress,
                   batchPc, i, results, caller, fileOp, fileArray>>

\* "await processor(content)" settles
ProcessFilesBatchProcessed ==
    /\ fileOp = "processFilesBatch"
    /\ filePc = "transliterating"
    /\ pc[fileAt] \in {"done", "rejected"}
    /\ LET entry == IF pc[fileAt] = "done"
                    THEN [file |-> fileAt, result |-> result[fileAt], success |-> TRUE]
                    ELSE [file |-> fileAt, error |-> "Unknown error", success |-> FALSE]
       IN  Continue(ProcessFilesBatchNext(entry))
    /\ UNCHANGED <<engineVars, callVars, texts, batchDirection, options, onProgress,
                   batchPc, i, results, caller, fileOp, fileArray>>

(***************************************************************************)
(* SpecFiles: one run of processFiles or of processFilesBatch.             *)
(***************************************************************************)
FileKinds ==
    { [ext |-> ".txt", size |-> 1, readable |-> TRUE, content |-> <<1608>>],
      [ext |-> ".md", size |-> 1, readable |-> TRUE, content |-> <<1576, 32>>],
      [ext |-> ".pdf", size |-> 1, readable |-> FALSE, content |-> <<>>],
      [ext |-> ".exe", size |-> 1, readable |-> TRUE, content |-> <<1608>>],
      [ext |-> ".txt", size |-> MAX_FILE_SIZE + 1, readable |-> TRUE, content |-> <<1608>>] }

FileLists == UNION {[1..n -> FileKinds] : n \in 1..MaxFiles}

FileOptions ==
    {[DEFAULT_OPTIONS EXCEPT !.batchSize = b, !.progressUpdates = p] :
        b \in 1..MaxBatchSize, p \in BOOLEAN}

InitFiles ==
    /\ caller = "files"
    /\ fileOp \in {"processFiles", "processFilesBatch"}
    /\ fileArray \in FileLists
    /\ filePc = "ready"
    /\ fileAt = 0
    /\ newFiles = <<>>
    /\ texts = <<>>
    /\ batchDirection \in Directions
    /\ options \in FileOptions
    /\ onProgress \in BOOLEAN
    /\ batchPc = "none"
    /\ i = 0
    /\ results = <<>>
    /\ progress = <<>>
    /\ InitEngine(Len(fileArray), BatchFeeds)

NextFiles ==
    \/ ProcessFilesInvoke
    \/ ProcessFilesRead
    \/ ProcessFilesTransliterated
    \/ ProcessFilesReset
    \/ ProcessFilesBatchInvoke
    \/ ProcessFilesBatchRead
    \/ ProcessFilesBatchProcessed
    \/ CallStep

SpecFiles == InitFiles /\ [][NextFiles]_vars

(***************************************************************************)
(* Properties.                                                             *)
(***************************************************************************)
\* the places where a maximal run of code points of S starts in t
RunStarts(t, S) ==
    {a \in 1..Len(t) : t[a] \in S /\ (a = 1 \/ t[a - 1] \notin S)}

\* the maximal run of code points of S that starts at a
RunAt(t, S, a) ==
    LET b == CHOOSE e \in a..Len(t) :
                /\ \A k \in a..e : t[k] \in S
                /\ (e = Len(t) \/ t[e + 1] \notin S)
    IN  SubSeq(t, a, b)

\* the maximal runs of code points of S in t, from left to right
MaximalRuns(t, S) ==
    LET starts == RunStarts(t, S)
        nth(n) == CHOOSE a \in starts : Cardinality({b \in starts : b < a}) = n - 1
    IN  [n \in 1..Cardinality(starts) |-> RunAt(t, S, nth(n))]

\* the whitespace-separated tokens of a text: its maximal runs of code
\* points that are no whitespace
NonWhitespace == (0..65535) \ WhitespaceChars

Tokens(t) == MaximalRuns(t, NonWhitespace)


\* number of places of a text where a token starts
TokenCount(t) ==
    Cardinality({k \in 1..Len(t) :
                    ~IsWhitespace(t[k]) /\ (k = 1 \/ IsWhitespace(t[k - 1]))})

Done(c) == pc[c] = "done"

LoadFailed(c) == loadPath[c] \in {"fetch-rejected", "threw"}

\* whether the lookup of word w of an input of direction d finds an entry
ViaLexicon(w, d) ==
    IF d = "urdu-to-roman"
    THEN StripTrailing(w, {1748, 1567, 1548, 1549, 1642}) \in DOMAIN lexicon
    ELSE ToLowerCase(w) \in DOMAIN reverseLexicon

\* the label the method rule gives call c on the store as it stands
ExpectedMethod(c) ==
    LET d      == direction[c]
        key    == IF d = "urdu-to-roman" THEN normalizeUrdu(text[c])
                  ELSE ToLowerCase(Trim(text[c]))
        phrase == IF d = "urdu-to-roman" THEN key \in DOMAIN lexicon
                  ELSE key \in DOMAIN reverseLexicon
        words  == Tokens(IF d = "urdu-to-roman" THEN normalizeUrdu(text[c]) ELSE text[c])
        nLex   == Cardinality({k \in 1..Len(words) : ViaLexicon(words[k], d)})
    IN  IF phrase /\ words # <<>> THEN "lexicon"
        ELSE IF nLex = 0 THEN "rule-based"
        ELSE IF nLex = Len(words) THEN "lexicon"
        ELSE "hybrid"

\* C1: in both directions and for every input text, leading, trailing and
\* repeated whitespace included, the method of a result is "lexicon" when
\* every word of the input was resolved through the lexicon, "rule-based"
\* when none was, and "hybrid" exactly when both kinds of word occur.
C1_MethodLabel ==
    \A c \in Calls : Done(c) => result[c].method = ExpectedMethod(c)

\* C2: when the lexicon load fails in any way, the store holds no entries
\* and the loaded flag is false; and after a failed load or a load of zero
\* entries a call returns method "rule-based".
C2_FailedLoadDegrades ==
    \A c \in Calls :
        /\ LoadFailed(c) =>
              lexicon = EmptyMap /\ reverseLexicon = EmptyMap /\ ~isLoaded
        /\ Done(c) /\ (LoadFailed(c) \/ (feed.kind = "list" /\ feed.data = <<>>)) =>
              result[c].method = "rule-based"

WellFormed(r) ==
    /\ DOMAIN r = {"originalText", "transliteratedText", "method", "completeness"}
    /\ r.method \in {"lexicon", "rule-based", "hybrid"}
    /\ DOMAIN r.completeness =
          {"isComplete", "untransliteratedParts", "totalWords", "untransliteratedCount"}
    /\ r.completeness.isComplete \in BOOLEAN
    /\ r.completeness.totalWords \in Nat
    /\ r.completeness.untransliteratedCount \in Nat

\* C3: loadLexicon never rejects, whatever the fetch, the JSON parse or the
\* record processing does, so no transliterate call rejects and every call
\* resolves with a well-formed TransliterationResult, for every input text,
\* the empty and the whitespace-only ones included.
C3_NeverRejects ==
    \A c \in Calls :
        /\ pc[c] # "rejected"
        /\ Done(c) => WellFormed(result[c]) /\ result[c].originalText = text[c]

\* a call given a whitespace-only text has resolved although its load threw
\* while it processed the records
C3_Witness ==
    \E c \in Calls : Done(c) /\ loadPath[c] = "threw" /\ text[c] = <<32>>

\* C4: once a load has completed with isLoaded set to true, isLoaded stays
\* true for ever and no further fetch is issued.
C4_LoadedForever ==
    [][isLoaded => isLoaded' /\ fetches' = fetches]_vars

\* the maps a single build leaves: each key of a usable record of the feed,
\* with the counterpart of the last record that has this key
Usable(e) ==
    /\ Truthy(normalizeUrdu(Trim(e.urdu_script)))
    /\ Truthy(ToLowerCase(Trim(e.roman_urdu)))

LastWriteWins(Key(_), Value(_)) ==
    LET usable == {k \in 1..Len(feed.data) : Usable(feed.data[k])}
        last(key) == CHOOSE k \in usable :
                        /\ Key(feed.data[k]) = key
                        /\ \A j \in usable : Key(feed.data[j]) = key => j <= k
    IN  [key \in {Key(feed.data[k]) : k \in usable} |-> Value(feed.data[last(key)])]

ScriptSide(e) == normalizeUrdu(Trim(e.urdu_script))

RomanSide(e) == ToLowerCase(Trim(e.roman_urdu))

SequentialLexicon == LastWriteWins(ScriptSide, RomanSide)

SequentialReverseLexicon == LastWriteWins(RomanSide, ScriptSide)

\* the calls whose loadLexicon built the store to the end
Built == {c \in Calls : loadPath[c] = "built"}

LoadsOver == \A c \in Calls : pc[c] \notin {"fetching", "parsing"}

\* C5: when two or more first calls all find isLoaded false and all build
\* the store from the same well-formed feed, then once all of them have
\* finished, in whatever order, the two maps are those of a single
\* sequential build and isLoaded is true.
C5_RedundantBuildsConverge ==
    (Cardinality(Built) >= 2 /\ LoadsOver /\ \A c \in Calls : ~LoadFailed(c)) =>
        /\ isLoaded
        /\ lexicon = SequentialLexicon
        /\ reverseLexicon = SequentialReverseLexicon

\* two calls have both built the store, from a feed that writes a key twice
C5_Witness ==
    /\ Cardinality(Built) >= 2
    /\ LoadsOver
    /\ \A c \in Calls : ~LoadFailed(c)
    /\ \E j, k \in 1..Len(feed.data) :
          j < k /\ Usable(feed.data[j]) /\ Usable(feed.data[k])
                /\ ScriptSide(feed.data[j]) = ScriptSide(feed.data[k])
                /\ RomanSide(feed.data[j]) # RomanSide(feed.data[k])

\* C6: every result the engine returns, in both directions and on every
\* return path, has untransliteratedCount equal to the length of
\* untransliteratedParts, and isComplete true exactly when the count is 0.
C6_CompletenessConsistent ==
    \A c \in Calls :
        Done(c) =>
            LET k == result[c].completeness
            IN  /\ k.untransliteratedCount = Len(k.untransliteratedParts)
                /\ k.isComplete = (k.untransliteratedCount = 0)

\* a result with one untransliterated part of two code points
C6_Witness ==
    \E c \in Calls :
        /\ Done(c)
        /\ result[c].completeness.untransliteratedCount = 1
        /\ Len(result[c].completeness.untransliteratedParts[1]) = 2

\* C7: in both directions totalWords is the number of whitespace-separated
\* tokens of the original input text, hence 0 for an empty or
\* whitespace-only input.
C7_TotalWords ==
    \A c \in Calls :
        Done(c) => result[c].completeness.totalWords = TokenCount(text[c])

\* the code points a result of direction d still shows in the source script
ArabicBlocks ==
    (1536..1791) \cup (1872..1919) \cup (2208..2303)
        \cup (64336..65023) \cup (65136..65279)

AsciiLetters == (65..90) \cup (97..122)

SourceScript(d) == IF d = "urdu-to-roman" THEN ArabicBlocks ELSE AsciiLetters

\* C8: untransliteratedParts is the list, in order, of the maximal runs of
\* source-script code points of the output text (Arabic blocks for Urdu to
\* Roman, ASCII letters for Roman to Urdu): adjacent source-script code
\* points are one part and none is left outside a part.
C8_PartsAreMaximalRuns ==
    \A c \in Calls :
        Done(c) =>
            result[c].completeness.untransliteratedParts
                = MaximalRuns(result[c].transliteratedText, SourceScript(direction[c]))

\* an output of three code points, two adjacent ones of the source script
\* forming one part and the third one outside the source script
C8_Witness ==
    \E c \in Calls :
        /\ Done(c)
        /\ Len(result[c].transliteratedText) = 3
        /\ Len(result[c].completeness.untransliteratedParts) = 1
        /\ Len(result[c].completeness.untransliteratedParts[1]) = 2
        /\ \E p \in 1..3 :
              result[c].transliteratedText[p] \notin SourceScript(direction[c])

SameInput(c, d) == text[c] = text[d] /\ direction[c] = direction[d]

SameFetchOutcomes ==
    ~ \E c, d \in Calls :
          loadPath[c] = "fetch-rejected" /\ loadPath[d] \in {"built", "threw"}

C10_BatchOrder ==
    batchPc = "returned" =>
        /\ Len(results) = Len(texts)
        /\ \A k \in 1..Len(texts) :
              /\ results[k] = result[k]
              /\ results[k].originalText = applyTextProcessing(texts[k], options)

\* a batch of two different texts has returned after its second call
\* resolved before its first
C10_Witness ==
    /\ batchPc = "returned"
    /\ options.batchSize >= 2
    /\ Len(texts) >= 2
    /\ texts[1] # texts[2]
    /\ \E m, n \in 1..Len(settled) : m < n /\ settled[m] = 2 /\ settled[n] = 1


(***************************************************************************)
(* Batch runs: concurrency inside a batch, barrier between batches.        *)
(***************************************************************************)
\* the calls that were started and have not settled
InFlight == {c \in Calls : pc[c] \in {"fetching", "parsing", "loaded"}}

Settled(c) == pc[c] \in {"done", "rejected"}

\* the batch (counted from 0) that item c of a run falls into
BatchOf(c) == (c - 1) \div options.batchSize

\* the files of a file run that get as far as their transliteration call
Transliterated(c) ==
    /\ fileArray[c].size <= MAX_FILE_SIZE
    /\ fileArray[c].ext \in SUPPORTED_FILE_TYPES
    /\ fileArray[c].readable

\* C11 (batchTransliterateWithOptions): the calls of a batch are in flight
\* together (none of them has settled while another one is not yet started),
\* no call of a later batch is started before every call of the batches
\* before it has settled, and never more than batchSize calls are in flight.
C11_TextBatchesConcurrentWithBarrier ==
    /\ \A c, d \in Calls :
          BatchOf(c) = BatchOf(d) /\ Settled(c) => pc[d] # "idle"
    /\ \A c, d \in Calls :
          BatchOf(c) < BatchOf(d) /\ pc[d] # "idle" => Settled(c)
    /\ Cardinality(InFlight) <= options.batchSize

\* C11 (processFiles, processFilesBatch): the same for a file run, over the
\* files that get a transliteration call: the calls of a batch are in flight
\* together, no call of a later batch is started before those of the batches
\* before it have settled, and never more than batchSize calls are in
\* flight.
C11_FileBatchesConcurrentWithBarrier ==
    /\ \A c, d \in Calls :
          /\ Transliterated(c) /\ Transliterated(d)
          /\ BatchOf(c) = BatchOf(d) /\ Settled(c)
          => pc[d] # "idle"
    /\ \A c, d \in Calls :
          /\ Transliterated(c)
          /\ BatchOf(c) < BatchOf(d) /\ pc[d] # "idle"
          => Settled(c)
    /\ Cardinality(InFlight) <= options.batchSize


(***************************************************************************)
(* Progress reporting of batchTransliterateWithOptions.                    *)
(***************************************************************************)
ProgressEnabled == onProgress /\ options.progressUpdates

\* the items of the run that are processed once batch j (from 1) is over
ProcessedAfter(j) == Min(j * options.batchSize, Len(texts))

\* the result call c may return under options o: on the store before a
\* build or on the store as built
PossibleResults(c, o) ==
    { transliterateWithOptions(texts[c], batchDirection, o, EmptyMap, EmptyMap),
      transliterateWithOptions(texts[c], batchDirection, o, lexicon, reverseLexicon) }

\* C12: with progress updates enabled and a callback given, the callback is
\* invoked exactly once after each batch, when every call of the batch is
\* over, with min(processed / total * 100, 100); the values are within
\* 0..100, never decrease, and the last one is 100.  With progress updates
\* disabled it is never invoked, and the results returned are those of the
\* calls, which do not depend on the setting.
C12_ProgressPerBatch ==
    /\ ProgressEnabled =>
          /\ Len(progress) = i \div options.batchSize
          /\ \A j \in 1..Len(progress) :
                /\ \A c \in Calls : c <= ProcessedAfter(j) => Done(c)
                /\ progress[j].num * Len(texts) = ProcessedAfter(j) * 100 * progress[j].den
                /\ 0 <= progress[j].num /\ progress[j].num <= 100 * progress[j].den
                /\ j > 1 => progress[j - 1].num * progress[j].den
                               <= progress[j].num * progress[j - 1].den
          /\ batchPc = "returned" /\ texts # <<>> =>
                /\ Len(progress) * options.batchSize >= Len(texts)
                /\ (Len(progress) - 1) * options.batchSize < Len(texts)
                /\ progress[Len(progress)].num = 100 * progress[Len(progress)].den
    /\ ~ProgressEnabled => progress = <<>>
    /\ batchPc = "returned" =>
          /\ results = [c \in 1..Len(texts) |-> result[c]]
          /\ \A c \in Calls :
                result[c] \in PossibleResults(
                                  c, [options EXCEPT !.progressUpdates = ~options.progressUpdates])

\* a run of two batches, the second one short, with the callback invoked
C12_Witness ==
    /\ batchPc = "returned"
    /\ ProgressEnabled
    /\ Len(progress) = 2
    /\ Len(texts) = 3
    /\ progress[1].num < 100 * progress[1].den


(***************************************************************************)
(* File batches: one entry per file.                                       *)
(***************************************************************************)
FileRunOver == filePc \in {"returned", "reset"}

\* the file an entry of the list reports, and whether it reports an error
EntryFile(e) == IF fileOp = "processFiles" THEN e.name ELSE e.file

IsErrorEntry(e) == IF fileOp = "processFiles" THEN e.status = "error" ELSE ~e.success

EntryResult(e) == IF fileOp = "processFiles" THEN e.transliterationResult ELSE e.result

\* C13: a file run is never aborted by a failing file: the list it produces
\* has exactly one entry per input file, in input order; the entry of a file
\* that fails validation, parsing or transliteration is an error entry, the
\* entry of any other file carries the result of its transliteration, and
\* the files after a failing one are processed and reported all the same.
C13_OneEntryPerFile ==
    /\ \A p \in 1..Len(newFiles) : EntryFile(newFiles[p]) = p
    /\ FileRunOver =>
          /\ Len(newFiles) = Len(fileArray)
          /\ \A p \in 1..Len(fileArray) :
                IF Transliterated(p) /\ Done(p)
                THEN /\ ~IsErrorEntry(newFiles[p])
                     /\ EntryResult(newFiles[p]) = result[p]
                ELSE IsErrorEntry(newFiles[p])

\* a run that is over, with a failed file followed by one that went through
C13_Witness ==
    /\ FileRunOver
    /\ \E p, q \in 1..Len(newFiles) :
          p < q /\ IsErrorEntry(newFiles[p]) /\ ~IsErrorEntry(newFiles[q])


(***************************************************************************)
(* Hybrid Resolver: the exact phrase match.                                *)
(***************************************************************************)
\* the key the whole input of call c is looked up under, and the map
PhraseKey(c) ==
    IF direction[c] = "urdu-to-roman" THEN normalizeUrdu(text[c])
    ELSE ToLowerCase(Trim(text[c]))

StoreOf(c) == IF direction[c] = "urdu-to-roman" THEN lexicon ELSE reverseLexicon

\* C14: whenever the whole input (normalized for Script, trimmed and
\* lower-cased for Roman) is a key of the lexicon of the direction, the
\* transliteratedText is exactly the stored counterpart and the method is
\* "lexicon": no per-word lookup and no rule-based rewriting contributes.
C14_PhraseMatchFirst ==
    \A c \in Calls :
        Done(c) /\ PhraseKey(c) \in DOMAIN StoreOf(c) =>
            /\ result[c].transliteratedText = StoreOf(c)[PhraseKey(c)]
            /\ result[c].method = "lexicon"

\* a call whose input is a phrase of two words held by the lexicon
C14_Witness ==
    \E c \in Calls :
        /\ Done(c)
        /\ PhraseKey(c) \in DOMAIN StoreOf(c)
        /\ Len(Tokens(PhraseKey(c))) = 2


(***************************************************************************)
(* Hybrid Resolver: one word from the lexicon, one from the rules.         *)
(***************************************************************************)
\* seen-lam-alef-meem and "salam"
Salam == [script |-> <<1587, 1604, 1575, 1605>>, roman |-> <<115, 97, 108, 97, 109>>]

\* words of table letters that are in no lexicon, with their rendering:
\* dal-noon-yeh-alef "dnya", beh-dal "bd"
Renderings ==
    { [script |-> <<1583, 1606, 1740, 1575>>, roman |-> <<100, 110, 121, 97>>],
      [script |-> <<1576, 1583>>, roman |-> <<98, 100>>] }

\* call c is the scenario with second word x: the lexicon holds the one entry
\* and the input is its script word, a space, and x
HybridScenario(c, x) ==
    /\ Done(c)
    /\ direction[c] = "urdu-to-roman"
    /\ DOMAIN lexicon = {Salam.script}
    /\ lexicon[Salam.script] = Salam.roman
    /\ text[c] = Salam.script \o <<32>> \o x.script

C16_EmptyRomanInput ==
    \A c \in Calls :
        Done(c) /\ direction[c] = "roman-to-urdu" /\ Tokens(text[c]) = <<>> =>
            /\ result[c].transliteratedText = <<>>
            /\ result[c].completeness.isComplete
            /\ result[c].completeness.totalWords = 0
            /\ result[c].completeness.untransliteratedCount = 0
            /\ result[c].completeness.untransliteratedParts = <<>>

\* a call with two spaces for an input, on a store that holds entries
C16_Witness ==
    \E c \in Calls :
        /\ Done(c)
        /\ direction[c] = "roman-to-urdu"
        /\ text[c] = <<32, 32>>
        /\ reverseLexicon # EmptyMap


(***************************************************************************)
(* Options: what never reaches the result.                                 *)
(***************************************************************************)
\* C17: the preferred-method hint and the quality threshold never influence
\* the result: a call returns what it would return under any other hint and
\* any other threshold, the text, the direction, the other options and the
\* store being the same.
C17_HintAndThresholdIgnored ==
    \A c \in Calls :
        Done(c) =>
            \A m \in PreferredMethods : \A q \in QualityThresholds :
                result[c] = transliterateWithOptions(
                                text[c], direction[c],
                                [options EXCEPT !.preferredMethod = m, !.qualityThreshold = q],
                                lexicon, reverseLexicon)

\* a call that used the lexicon against the hint "rule-based-only", with a result
\* that is below the threshold of the call and not below another one
C17_Witness ==
    \E c \in Calls :
        /\ Done(c)
        /\ options.preferredMethod = "rule-based-only"
        /\ result[c].method \in {"lexicon", "hybrid"}
        /\ WarnsBelowThreshold(result[c], options)
        /\ ~WarnsBelowThreshold(result[c], [options EXCEPT !.qualityThreshold = 0])


(***************************************************************************)
(* Hybrid Resolver: the entries the per-word lookup may use.               *)
(***************************************************************************)
\* an entry that is exactly one word on its script side and on its roman side
OneToOne(e) ==
    /\ Usable(e)
    /\ Len(Tokens(ScriptSide(e))) = 1
    /\ Len(Tokens(RomanSide(e))) = 1

\* the word map of a direction: the one-to-one entries of the feed, the last
\* one of a key winning
WordMap(Key(_), Value(_)) ==
    LET words == {k \in 1..Len(feed.data) : OneToOne(feed.data[k])}
        last(key) == CHOOSE k \in words :
                        /\ Key(feed.data[k]) = key
                        /\ \A j \in words : Key(feed.data[j]) = key => j <= k
    IN  [key \in {Key(feed.data[k]) : k \in words} |-> Value(feed.data[last(key)])]

\* the text word-by-word processing gives call c when a word is looked up
\* in the word map of the direction
WordByWordText(c) ==
    IF direction[c] = "urdu-to-roman"
    THEN LET words == Split(normalizeUrdu(text[c]))
         IN  Join([k \in 1..Len(words) |->
                      UrduWord(words[k], WordMap(ScriptSide, RomanSide)).word])
    ELSE LET words == Split(Trim(text[c]))
         IN  Join([k \in 1..Len(words) |->
                      RomanWord(words[k], WordMap(RomanSide, ScriptSide)).word])

\* C18: in word-by-word processing a word is only ever resolved through an
\* entry that is one word on both sides: once the feed is loaded, a call
\* that goes word by word returns the text that looking every word up among
\* the one-to-one entries gives.
C18_WordLookupOneToOne ==
    \A c \in Calls :
        /\ Done(c) /\ loadPath[c] = "built"
        /\ Tokens(text[c]) # <<>>
        /\ PhraseKey(c) \notin DOMAIN StoreOf(c)
        => result[c].transliteratedText = WordByWordText(c)


(***************************************************************************)
(* Rule-based path, Script to Roman.                                       *)
(***************************************************************************)
\* heh doachashmee, the aspirator
DoChashmiHeh == 1726

\* call c went through the rules with its whole input, a single word
RuleBasedWord(c) ==
    /\ Done(c)
    /\ direction[c] = "urdu-to-roman"
    /\ text[c] # <<>>
    /\ \A k \in 1..Len(text[c]) :
          text[c][k] \notin WhitespaceChars \cup {1748, 1567, 1548, 1549, 1642}
    /\ normalizeUrdu(text[c]) \notin DOMAIN lexicon

\* what the table gives for a code point: its value, or the code point when
\* the table has no entry for it
TableValue(ch) ==
    IF ch \in DOMAIN URDU_TO_ROMAN_MAP THEN URDU_TO_ROMAN_MAP[ch] ELSE <<ch>>

RECURSIVE TableRendering(_)
\* every code point of a word as its table value
TableRendering(word) ==
    IF word = <<>> THEN <<>> ELSE TableValue(Head(word)) \o TableRendering(Tail(word))

\* C19: in the rule-based path every code point that has an entry in the
\* table, an entry with the empty string for a value included, is emitted as
\* its table value, and only the code points without an entry are passed
\* through; a word of table letters leaves no script character in the output.
C19_TableLettersEmitted ==
    \A c \in Calls :
        RuleBasedWord(c) =>
            LET word == normalizeUrdu(text[c])
            IN  /\ result[c].transliteratedText = applyPhoneticRules(TableRendering(word))
                /\ (\A k \in 1..Len(word) : word[k] \in DOMAIN URDU_TO_ROMAN_MAP)
                      => result[c].completeness.untransliteratedCount = 0

RECURSIVE AspirationRendering(_)
\* a letter with a table entry followed by the aspirator gives its table
\* value and "h", the pair being consumed together; any other code point
\* gives its table value
AspirationRendering(word) ==
    IF word = <<>> THEN <<>>
    ELSE IF /\ Len(word) >= 2
            /\ word[2] = DoChashmiHeh
            /\ word[1] \in DOMAIN URDU_TO_ROMAN_MAP
    THEN URDU_TO_ROMAN_MAP[word[1]] \o <<104>> \o AspirationRendering(Tail(Tail(word)))
    ELSE TableValue(Head(word)) \o AspirationRendering(Tail(word))

\* every letter of the word whose table value is the empty string is
\* followed by the aspirator
EmptyValuedOnlyAspirated(word) ==
    \A k \in 1..Len(word) :
        word[k] \in DOMAIN URDU_TO_ROMAN_MAP /\ URDU_TO_ROMAN_MAP[word[k]] = <<>>
            => k < Len(word) /\ word[k + 1] = DoChashmiHeh

\* C20: in the rule-based path a letter with a table value m that is
\* followed by the do-chashmi heh is consumed with it and contributes m and
\* "h", for every letter that has a table entry.
C20_AspirationRule ==
    \A c \in Calls :
        RuleBasedWord(c) /\ EmptyValuedOnlyAspirated(normalizeUrdu(text[c])) =>
            result[c].transliteratedText
                = applyPhoneticRules(AspirationRendering(normalizeUrdu(text[c])))


(***************************************************************************)
(* Hybrid Resolver, Script to Roman: the punctuation of a word.            *)
(***************************************************************************)
\* the script punctuation marks with their ASCII counterparts: full stop,
\* question mark, comma, date separator, percent sign
ScriptPunctuation ==
    1748 :> 46 @@ 1567 :> 63 @@ 1548 :> 44 @@ 1549 :> 47 @@ 1642 :> 37

\* the length of the stem of a word: what is left of its trailing run of
\* script punctuation
StemLength(word) ==
    CHOOSE n \in 0..Len(word) :
        /\ \A k \in (n + 1)..Len(word) : word[k] \in DOMAIN ScriptPunctuation
        /\ n > 0 => word[n] \notin DOMAIN ScriptPunctuation

\* call c resolved its whole input as one word, by lookup or by rule
SingleWord(c) ==
    /\ Done(c)
    /\ direction[c] = "urdu-to-roman"
    /\ text[c] # <<>>
    /\ \A k \in 1..Len(text[c]) : text[c][k] \notin WhitespaceChars
    /\ normalizeUrdu(text[c]) \notin DOMAIN lexicon

\* C21: in Script to Roman word-by-word processing the trailing run of
\* script punctuation of a word is stripped before the lookup and attached
\* again after the resolved stem with every mark as its ASCII counterpart, on
\* the lexicon branch and on the rule-based branch; no script punctuation
\* mark of the run remains in the output.
C21_PunctuationTranslated ==
    \A c \in Calls :
        SingleWord(c) =>
            LET word  == normalizeUrdu(text[c])
                n     == StemLength(word)
                stem  == SubSeq(word, 1, n)
                marks == SubSeq(word, n + 1, Len(word))
                ascii == [k \in 1..Len(marks) |-> ScriptPunctuation[marks[k]]]
            IN  /\ result[c].transliteratedText
                      = (IF stem \in DOMAIN lexicon THEN lexicon[stem]
                         ELSE transliterateUrduWordRuleBased(stem)) \o ascii
                /\ result[c].method
                      = (IF stem \in DOMAIN lexicon THEN "lexicon" ELSE "rule-based")


(***************************************************************************)
(* Rule-based path, Roman to Script.                                       *)
(***************************************************************************)
\* call c went through the rules with its whole input, a single word that
\* ends in no punctuation mark
RomanRuleBasedWord(c) ==
    /\ Done(c)
    /\ direction[c] = "roman-to-urdu"
    /\ text[c] # <<>>
    /\ \A k \in 1..Len(text[c]) : text[c][k] \notin WhitespaceChars
    /\ text[c][Len(text[c])] \notin {46, 44, 33, 63, 59, 58}
    /\ ToLowerCase(text[c]) \notin DOMAIN reverseLexicon

\* the table keys that are a prefix of a text
PrefixKeys(rest) ==
    {key \in DOMAIN ROMAN_TO_URDU_MAP :
        /\ key # <<32>>
        /\ Len(key) <= Len(rest)
        /\ SubSeq(rest, 1, Len(key)) = key}

\* the vowel fallback, and any other character copied
Fallback(ch) ==
    CASE ch = 97 -> <<1575>>
      [] ch = 105 -> <<1740>>
      [] ch \in {117, 111} -> <<1608>>
      [] ch = 101 -> <<1746>>
      [] OTHER -> <<ch>>

RECURSIVE GreedyRendering(_)
\* greedy longest match: a longest key that is a prefix of what remains is
\* chosen and the cursor advances by its length; with no such key one
\* character is copied and the cursor advances by one
GreedyRendering(rest) ==
    IF rest = <<>> THEN <<>>
    ELSE IF PrefixKeys(rest) = {}
    THEN Fallback(Head(rest)) \o GreedyRendering(Tail(rest))
    ELSE LET key == CHOOSE k \in PrefixKeys(rest) :
                       \A other \in PrefixKeys(rest) : Len(other) <= Len(k)
         IN  ROMAN_TO_URDU_MAP[key]
             \o GreedyRendering(SubSeq(rest, Len(key) + 1, Len(rest)))

\* C22: Roman to Script rule-based rewriting is greedy longest-match over the
\* lower-cased word: at each position a longest table key that is a prefix of
\* the remaining text is chosen ("aa" over "a", "ch" over "h") and the cursor
\* advances by its length, a position without a matching key copies one
\* character, and the loop ends when the word is consumed.
C22_GreedyLongestMatch ==
    \A c \in Calls :
        RomanRuleBasedWord(c) =>
            result[c].transliteratedText = GreedyRendering(ToLowerCase(text[c]))

\* "kha": the key "kh" is chosen over "k", then "a"
C22_Witness ==
    \E c \in Calls :
        /\ RomanRuleBasedWord(c)
        /\ text[c] = <<107, 104, 97>>
        /\ Len(result[c].transliteratedText) = 2


(***************************************************************************)
(* Roman direction: letter case.                                           *)
(***************************************************************************)
RECURSIVE CaseVariants(_)
\* the texts that differ from t in letter case only
CaseVariants(t) ==
    IF t = <<>> THEN {<<>>}
    ELSE {<<ch>> \o rest :
            ch \in {Head(t), ToLowerCase(<<Head(t)>>)[1], ToUpperCase(<<Head(t)>>)[1]},
            rest \in CaseVariants(Tail(t))}

\* C23: Roman-direction processing is case-insensitive: a text that differs
\* from the input in letter case only gets the same transliteratedText,
\* method and completeness on the same store.
C23_CaseInsensitive ==
    \A c \in Calls :
        Done(c) /\ direction[c] = "roman-to-urdu" =>
            \A v \in CaseVariants(text[c]) :
                LET other == transliterateRomanToUrdu(v, reverseLexicon)
                IN  /\ other.transliteratedText = result[c].transliteratedText
                    /\ other.method = result[c].method
                    /\ other.completeness = result[c].completeness

\* an input with a capital letter, a word of which was found in the lexicon
\* by the per-word lookup
C23_Witness ==
    \E c \in Calls :
        /\ Done(c)
        /\ direction[c] = "roman-to-urdu"
        /\ \E k \in 1..Len(text[c]) : text[c][k] \in 65..90
        /\ PhraseKey(c) \notin DOMAIN reverseLexicon
        /\ result[c].method \in {"lexicon", "hybrid"}


(***************************************************************************)
(* Phonetic post-processing of a rule-based word.                          *)
(***************************************************************************)
\* the concatenated rule output of the word of call c, before post-processing
RuleOutput(c) == UrduWordLoop(normalizeUrdu(text[c]), 1)

\* position i of the rule output holds letter ch with a consonant letter
\* immediately before and immediately after it
AmongConsonants(raw, k, ch) ==
    /\ raw[k] = ch
    /\ k > 1
    /\ k < Len(raw)
    /\ raw[k - 1] \in ConsonantLetters
    /\ raw[k + 1] \in ConsonantLetters

\* the rule output with every such "w" as "o" and every such "y" as "i"
VowelCorrected(raw) ==
    [k \in 1..Len(raw) |->
        IF AmongConsonants(raw, k, 119) THEN 111
        ELSE IF AmongConsonants(raw, k, 121) THEN 105
        ELSE raw[k]]

\* a text without its quote characters and whitespace
LettersOf(t) == SelectSeq(t, LAMBDA ch : ch \notin {39, 34} \cup WhitespaceChars)

\* C24: post-processing a rule-based word rewrites every "w" that has a
\* consonant letter immediately before and after it in the rule output to
\* "o", every such "y" to "i", and changes no other letter.
C24_VowelCorrection ==
    \A c \in Calls :
        RuleBasedWord(c) =>
            LettersOf(result[c].transliteratedText)
                = LettersOf(VowelCorrected(RuleOutput(c)))

\* the rule output with its "w" among consonants as "o", and then every "y"
\* that is among consonants in that text as "i"
VowelCorrectedInTurn(raw) ==
    LET w == [k \in 1..Len(raw) |->
                 IF AmongConsonants(raw, k, 119) THEN 111 ELSE raw[k]]
    IN  [k \in 1..Len(w) |-> IF AmongConsonants(w, k, 121) THEN 105 ELSE w[k]]

\* C24, amended: the "w" are judged on the rule output and the "y" on the
\* text in which the "w" have been rewritten, so a "y" next to a rewritten
\* "w" stays; no other letter changes.
C24_VowelCorrectionInTurn ==
    \A c \in Calls :
        RuleBasedWord(c) =>
            LettersOf(result[c].transliteratedText)
                = LettersOf(VowelCorrectedInTurn(RuleOutput(c)))

\* "bwyb" has been post-processed to "boyb"
C24_Witness ==
    \E c \in Calls :
        /\ RuleBasedWord(c)
        /\ RuleOutput(c) = <<98, 119, 121, 98>>
        /\ result[c].transliteratedText = <<98, 111, 121, 98>>

(***************************************************************************)
(* The Lexicon Store as its readers see it.                                *)
(***************************************************************************)
\* some loadLexicon has run through: the store has been constructed
StoreBuilt == \E c \in Calls : loadPath[c] = "built"

\* the two maps a construction from the feed gives
FullStore == BuildStore(feed, [lexicon |-> EmptyMap, reverseLexicon |-> EmptyMap])

\* C25: once a construction of the store has succeeded, no step changes the
\* contents of either map, whatever loads are in flight, succeed or fail;
\* the maps a call reads from then on are the complete ones, never cleared
\* or partly rebuilt.
C25_StoreImmutableForReaders ==
    [][ /\ StoreBuilt => lexicon' = lexicon /\ reverseLexicon' = reverseLexicon
        /\ StoreBuilt' => /\ lexicon' = FullStore.lexicon
                          /\ reverseLexicon' = FullStore.reverseLexicon ]_vars

\* the store was built twice, a redundant load after the first one, and a
\* call has read the non-empty store through a lookup after that
C25_Witness ==
    /\ \A c \in Calls : loadPath[c] = "built"
    /\ Cardinality(Calls) > 1
    /\ lexicon # EmptyMap
    /\ \E c \in Calls : Done(c) /\ result[c].method = "lexicon"

(***************************************************************************)
(* SpecKeys: a lexicon of one entry, and a lookup of the script text of    *)
(* that entry, as written or already normalized.                           *)
(***************************************************************************)
MaxKeyLen == 2

\* space, waw, arabic-indic zero, tatweel, fathatan, waw with hamza above,
\* arabic yeh
KeyAlphabet == {32, 1608, 1632, 1600, 1611, 1572, 1610}

KeyFeeds ==
    {[kind |-> "list", data |-> <<Entry(t, <<120>>)>>] :
        t \in TextsOver(KeyAlphabet, MaxKeyLen)}

\* the script text of the entry of the feed
EntryText == feed.data[1].urdu_script

KeyInputs ==
    {[text |-> t, direction |-> "urdu-to-roman"] :
        t \in {EntryText, normalizeUrdu(EntryText)}}

InitKeys == InitEngine(1, KeyFeeds) /\ NoBatch /\ NoFiles /\ caller = "engine"

NextKeys ==
    \/ \E c \in Calls : Start(c, KeyInputs)
    \/ CallStep

SpecKeys == InitKeys /\ [][NextKeys]_vars

\* the code points normalizeUrdu rewrites or deletes
Denormal ==
    {ARABIC_DIGITS[k] : k \in 1..Len(ARABIC_DIGITS)} \cup {1600} \cup Diacritics
        \cup {NORMALIZE_MAP[k][1] : k \in 1..Len(NORMALIZE_MAP)}

\* normalizing the normalized text gives it again, and the normalized text
\* has no Arabic-Indic digit, tatweel, deleted diacritic or folded glyph
C26_NormalizeIdempotent ==
    \A c \in Calls :
        LET normalized == normalizeUrdu(text[c])
        IN  /\ normalizeUrdu(normalized) = normalized
            /\ \A k \in 1..Len(normalized) : normalized[k] \notin Denormal

\* C26: normalizeUrdu is idempotent and its output has none of the code
\* points it rewrites or deletes, so the key stored for the script text of
\* an entry and the key a later lookup builds from the same script text
\* coincide: the lookup key is a key of the store.
C26_KeysCoincide ==
    /\ C26_NormalizeIdempotent
    /\ \A c \in Calls :
          /\ Done(c)
          /\ text[c] = EntryText
          /\ lexicon # EmptyMap
          => normalizeUrdu(text[c]) \in DOMAIN lexicon

\* the same, for the script texts without whitespace at either end
C26_KeysCoincideTrimmed ==
    \A c \in Calls :
        /\ Done(c)
        /\ text[c] = EntryText
        /\ Trim(text[c]) = text[c]
        /\ lexicon # EmptyMap
        => normalizeUrdu(text[c]) \in DOMAIN lexicon

(***************************************************************************)
(* The completeness percentage of QualityIndicator and                     *)
(* checkQualityThreshold.                                                  *)
(***************************************************************************)
\* C27: in every engine result untransliteratedCount is at most totalWords,
\* so the completeness percentage lies between 0 and 100.
C27_PercentageInRange ==
    \A c \in Calls :
        Done(c) =>
            /\ result[c].completeness.untransliteratedCount
                   <= result[c].completeness.totalWords
            /\ completenessPercentage(result[c]) \in 0..100

\* the same, for the results with at most one leftover run
C27_PercentageInRangeOneRun ==
    \A c \in Calls :
        Done(c) /\ result[c].completeness.untransliteratedCount <= 1 =>
            /\ result[c].completeness.untransliteratedCount
                   <= result[c].completeness.totalWords
            /\ completenessPercentage(result[c]) \in 0..100

(***************************************************************************)
(* The completeness record against the text transliterateWithOptions       *)
(* returns.                                                                *)
(***************************************************************************)
\* the maximal source-script runs of the text of a result
LeftoverRuns(res, dir) ==
    MatchRuns(res.transliteratedText,
              IF dir = "urdu-to-roman" THEN urduPattern ELSE latinPattern, <<>>)

\* C28: the completeness record of a result of transliterateWithOptions
\* describes the returned, formatted text: untransliteratedParts are its
\* maximal source-script runs and isComplete says that it has none.
C28_CompletenessOfReturnedText ==
    \A c \in Calls :
        Done(c) =>
            /\ result[c].completeness.untransliteratedParts
                   = LeftoverRuns(result[c], direction[c])
            /\ result[c].completeness.isComplete
                   <=> LeftoverRuns(result[c], direction[c]) = <<>>

\* the same, for the options that leave case and punctuation as they are
C28_CompletenessUnformatted ==
    \A c \in Calls :
        /\ Done(c)
        /\ options.outputCase = "preserve"
        /\ options.punctuationHandling # "remove"
        => /\ result[c].completeness.untransliteratedParts
                  = LeftoverRuns(result[c], direction[c])
           /\ result[c].completeness.isComplete
                  <=> LeftoverRuns(result[c], direction[c]) = <<>>

\* isComplete alone, under every options value
C28_IsCompleteOfReturnedText ==
    \A c \in Calls :
        Done(c) =>
            (result[c].completeness.isComplete
                <=> LeftoverRuns(result[c], direction[c]) = <<>>)

(***************************************************************************)
(* SpecSettings: the options as the settings layer holds them              *)
(* (TranslationOptionsProvider, TranslationSettings), handed to one run of *)
(* batchTransliterateWithOptions.                                          *)
(***************************************************************************)
\* the positions of the batch-size slider that are tried (min 1, step 1)
SliderValues == 1..MaxBatchSize

\* the batchSize of a settings file or of a stored item
ImportedBatchSizes == {0, 1, 2}

\* JSON.parse of a settings file: an options record, batchSize as the file has it
ImportedOptions == {[DEFAULT_OPTIONS EXCEPT !.batchSize = b] : b \in ImportedBatchSizes}

\* localStorage.getItem(STORAGE_KEY), parsed: nothing stored, or (part of) an
\* options record
StoredItems ==
    {[kind |-> "none"]} \cup {[kind |-> "item", parsed |-> [batchSize |-> b]] :
                                b \in ImportedBatchSizes}

\* { ...DEFAULT_OPTIONS, ...parsedOptions }
SpreadOver(defaults, parsed) ==
    [k \in DOMAIN defaults \cup DOMAIN parsed |->
        IF k \in DOMAIN parsed THEN parsed[k] ELSE defaults[k]]

\* the mount effect of TranslationOptionsProvider
RestoreOptions ==
    /\ batchPc = "mounting"
    /\ \E stored \in StoredItems :
          options' = IF stored.kind = "item"
                     THEN SpreadOver(DEFAULT_OPTIONS, stored.parsed)
                     ELSE options
    /\ batchPc' = "settings"
    /\ UNCHANGED <<engineVars, callVars, texts, batchDirection, onProgress, i, results,
                   progress, caller, fileVars>>

\* handleOptionChange("batchSize", value), from the slider
handleOptionChange(value) ==
    /\ batchPc = "settings"
    /\ options' = [options EXCEPT !.batchSize = value]
    /\ UNCHANGED <<engineVars, callVars, texts, batchDirection, onProgress, batchPc, i,
                   results, progress, caller, fileVars>>

handleReset ==
    /\ batchPc = "settings"
    /\ options' = DEFAULT_OPTIONS
    /\ UNCHANGED <<engineVars, callVars, texts, batchDirection, onProgress, batchPc, i,
                   results, progress, caller, fileVars>>

\* reader.onload of handleImportSettings, the file being valid JSON
handleImportSettings(importedOptions) ==
    /\ batchPc = "settings"
    /\ options' = importedOptions
    /\ UNCHANGED <<engineVars, callVars, texts, batchDirection, onProgress, batchPc, i,
                   results, progress, caller, fileVars>>

\* a caller takes the options as they are for a batch run
BatchRequested ==
    /\ batchPc = "settings"
    /\ batchPc' = "ready"
    /\ UNCHANGED <<engineVars, callVars, texts, batchDirection, options, onProgress, i,
                   results, progress, caller, fileVars>>

InitSettings ==
    /\ texts \in BatchTexts
    /\ batchDirection = "urdu-to-roman"
    /\ options = DEFAULT_OPTIONS
    /\ onProgress \in BOOLEAN
    /\ batchPc = "mounting"
    /\ i = 0
    /\ results = <<>>
    /\ progress = <<>>
    /\ InitEngine(Len(texts), BatchFeeds)
    /\ NoFiles
    /\ caller = "batch"

\* the run is followed for as long as it has reported at most MaxTexts times
NextSettings ==
    \/ RestoreOptions
    \/ \E value \in SliderValues : handleOptionChange(value)
    \/ handleReset
    \/ \E importedOptions \in ImportedOptions : handleImportSettings(importedOptions)
    \/ BatchRequested
    \/ BatchInvoke
    \/ Len(progress) <= MaxTexts /\ BatchResume
    \/ CallStep

SpecSettings == InitSettings /\ [][NextSettings]_vars

\* the number of batches a run of n texts takes: ceil(n / batchSize)
BatchCount == (Len(texts) + options.batchSize - 1) \div options.batchSize

\* C29: whatever the slider changes, resets, imports and restores before
\* it, a batch run is handed a batchSize that is an integer >= 1, so it
\* advances by at least one text per batch and returns after
\* ceil(n / batchSize) batches.
C29_BatchSizeAtLeastOne ==
    batchPc \in {"ready", "awaiting", "returned", "rejected"} =>
        /\ options.batchSize \in Nat \ {0}
        /\ batchPc = "returned" =>
              /\ Len(results) = Len(texts)
              /\ i = BatchCount * options.batchSize

\* every turn of the loop that reports progress has advanced the loop
\* variable
C29_LoopAdvances ==
    [][batchPc = "awaiting" /\ progress' # progress => i' > i]_vars

\* the same as C29, for the runs whose batchSize is at least 1
C29_ReturnsWithPositiveBatchSize ==
    batchPc = "returned" /\ options.batchSize >= 1 =>
        /\ Len(results) = Len(texts)
        /\ i = BatchCount * options.batchSize

(***************************************************************************)
(* The progress reports of processFilesBatch.                              *)
(***************************************************************************)
\* a run of processFilesBatch that was given a progress callback
ReportingBatchRun == fileOp = "processFilesBatch" /\ onProgress

\* the value reported after the file at position p: (p / n) * 100
ProgressAfter(p) == [num |-> p * 100, den |-> Len(fileArray)]

\* C30: processFilesBatch reports progress once for every file handled,
\* whether the file succeeded, failed or was rejected by validation, with
\* the value (i + 1) / n * 100 after the i-th file; the values strictly
\* increase and the last one reported before the return is 100.
C30_ProgressPerFile ==
    ReportingBatchRun =>
        /\ Len(progress) = Len(newFiles)
        /\ \A k \in 1..Len(progress) : progress[k] = ProgressAfter(k)
        /\ filePc = "returned" =>
              /\ progress # <<>>
              /\ progress[Len(progress)].num = 100 * progress[Len(progress)].den

\* the reported values strictly increase
C30_ProgressIncreases ==
    ReportingBatchRun =>
        \A k \in 1..(Len(progress) - 1) :
            progress[k].num * progress[k + 1].den < progress[k + 1].num * progress[k].den

\* the same as C30, for the lists whose files all pass validation
C30_ProgressPerValidFile ==
    ReportingBatchRun /\ (\A p \in 1..Len(fileArray) : validateFile(fileArray[p]).isValid) =>
        /\ Len(progress) = Len(newFiles)
        /\ \A k \in 1..Len(progress) : progress[k] = ProgressAfter(k)
        /\ filePc = "returned" =>
              /\ progress # <<>>
              /\ progress[Len(progress)].num = 100 * progress[Len(progress)].den
====
